---- MODULE Spec2Model ----
(***************************************************************************)
(* Finite-dimensional free algebra quotients, free-algebra ideals and the  *)
(* Moseley algebra (src/sage/algebras/free_algebra_quotient.py and         *)
(* src/sage/algebras/moseley.py) as state machines.                        *)
(*                                                                         *)
(*   SpecQuot    construction of FreeAlgebraQuotient objects, the          *)
(*               unique-representation cache, and gen(i)                   *)
(*   SpecArith   products and powers of elements of the quaternion         *)
(*               quotients built by hamilton_quatalg and the doctests      *)
(*   SpecIdeal   FreeAlgebraIdeal.groebner_basis and .reduce               *)
(*   SpecMos     construction of MoseleyAlgebra and its specializations    *)
(***************************************************************************)
EXTENDS Integers, Sequences, FiniteSets, TLC

VARIABLES cache, last, q, idl, mos

vars == <<cache, last, q, idl, mos>>

(***************************************************************************)
(* Bounds of the model.                                                    *)
(***************************************************************************)
MaxGens == 3
MaxObjs == 2

(***************************************************************************)
(* Values every specification gives to the variables it does not use.      *)
(***************************************************************************)
NoCall == [op |-> "none"]
IdleQ == [mode |-> "idle"]
IdleIdl == [pc |-> "idle"]
IdleMos == [op |-> "none"]

(***************************************************************************)
(* Generic helpers.                                                        *)
(***************************************************************************)
Range(s) == {s[k] : k \in DOMAIN s}

Min(a, b) == IF a < b THEN a ELSE b

\* Python's list.index / tuple.index: the first position (0-based) of x.
IndexOf(s, x) == (CHOOSE k \in DOMAIN s : s[k] = x /\ \A l \in 1..(k - 1) : s[l] # x) - 1

(***************************************************************************)
(* Python containers: a list and a tuple with the same items are different *)
(* values; tuple(x) keeps the items.                                       *)
(***************************************************************************)
PyList(items) == [kind |-> "list", items |-> items]
PyTuple(items) == [kind |-> "tuple", items |-> items]
tuple(x) == PyTuple(x.items)

(***************************************************************************)
(* The inputs of FreeAlgebraQuotient(A, mons, mats, names).                *)
(* A word of the free monoid is a sequence of 0-based generator indices;   *)
(* <<>> is F(1) and <<i>> is F.gen(i).                                     *)
(***************************************************************************)
Rings == {"QQ", "ZZ"}

FreeAlgebra(R, n) == [free |-> TRUE, ring |-> R, n |-> n]

\* An algebra that is not a free algebra (e.g. a polynomial ring).
NotFreeAlgebra == [free |-> FALSE, ring |-> "QQ", n |-> 1]

Algebras ==
    {FreeAlgebra("QQ", n) : n \in 1..MaxGens} \cup {FreeAlgebra("ZZ", 1), NotFreeAlgebra}

FGen(i) == <<i>>

\* The monomial bases used: [F(1), F.gen(0), ..., F.gen(n-1)] (the shape of
\* mons in hamilton_quatalg) and the same followed by F.gen(0)*F.gen(n-1)
\* (for n = 2 the basis [1, i, j, i*j] of the doctest H2).
GensBasis(n) == [k \in 1..(n + 1) |-> IF k = 1 THEN <<>> ELSE FGen(k - 2)]
ProductBasis(n) == Append(GensBasis(n), <<0, n - 1>>)
MonsOptions(A) == {GensBasis(A.n), ProductBasis(A.n)}

\* A matrix of MatrixSpace(R, size), its entries named by a tag; mutable until
\* set_immutable().
Matrix(size, entries, mutable) == [size |-> size, entries |-> entries, mutable |-> mutable]
MatList(len, size, entries, mutable) == [k \in 1..len |-> Matrix(size, entries, mutable)]

\* names: i0, i1, ... or x0, x1, ...
Names(n, style) == [k \in 1..n |-> <<style, k - 1>>]

\* The argument values tried: every algebra with each of its monomial bases
\* and matrices of MatrixSpace(R, len(mons)), and for the one-generator
\* algebra over QQ also other matrices, other names, and matrices of
\* MatrixSpace(R, len(mons) + 1).
Shapes ==
    UNION {{[A |-> A, mons |-> mons, entries |-> "a", style |-> "i", size |-> Len(mons)] :
                mons \in MonsOptions(A)} : A \in Algebras}
    \cup {[A |-> FreeAlgebra("QQ", 1), mons |-> GensBasis(1), entries |-> sh[1],
           style |-> sh[2], size |-> Len(GensBasis(1)) + sh[3]] :
             sh \in {<<"b", "i", 0>>, <<"a", "x", 0>>, <<"a", "i", 1>>}}

\* Every call FreeAlgebraQuotient(A, mons, mats, names) of the model: one
\* matrix per generator or one too many; the arguments are either fresh lists
\* of mutable matrices or tuples of immutable ones.
QuotInputs ==
    {[A |-> sh.A,
      mons |-> IF fresh THEN PyList(sh.mons) ELSE PyTuple(sh.mons),
      mats |-> PyList(MatList(sh.A.n + extra, sh.size, sh.entries, fresh)),
      names |-> IF fresh THEN PyList(Names(sh.A.n, sh.style))
                         ELSE PyTuple(Names(sh.A.n, sh.style))] :
        sh \in Shapes, extra \in {0, 1}, fresh \in BOOLEAN}

(***************************************************************************)
(* FreeAlgebraQuotient.__classcall__ (lines 143-161).                      *)
(***************************************************************************)
\* M = M.parent()(M); M.set_immutable()
NormalizeMatKeepsFlag(M) == M
NormalizeMat(M) == [M EXCEPT !.mutable = FALSE]

ClassCallKey(inp) ==
    [A |-> inp.A,
     mons |-> tuple(inp.mons),
     mats |-> PyTuple([k \in DOMAIN inp.mats.items |-> NormalizeMat(inp.mats.items[k])]),
     names |-> tuple(inp.names)]

(***************************************************************************)
(* FreeAlgebraQuotient.__init__ (lines 219-230): the outcome for a key     *)
(* that is not cached.                                                     *)
(***************************************************************************)
is_FreeAlgebra(A) == A.free

InitOutcome(key) ==
    IF ~is_FreeAlgebra(key.A) THEN "TypeError"
    ELSE IF key.A.n # Len(key.mats.items) THEN "AssertionError"
    ELSE "ok"

\* Accessors of a constructed algebra (lines 309-401).
ngens(H) == H.A.n
dimension(H) == Len(H.mons.items)
monomial_basis(H) == H.mons.items

(***************************************************************************)
(* The data two calls are compared by: the items, not the containers, and  *)
(* the matrices' entries, not their mutability.                            *)
(***************************************************************************)
DataOf(inp) ==
    [A |-> inp.A,
     mons |-> inp.mons.items,
     mats |-> [k \in DOMAIN inp.mats.items |->
                 <<inp.mats.items[k].size, inp.mats.items[k].entries>>],
     names |-> inp.names.items]

(***************************************************************************)
(* Element construction from a coefficient mapping {monomial: 1} for a     *)
(* monomial of the basis: the coordinate vector against the monomial       *)
(* basis.                                                                  *)
(***************************************************************************)
UnitVector(d, p) == [k \in 1..d |-> IF k = p + 1 THEN 1 ELSE 0]

ElementFromDict(H, m) ==
    [status |-> "ok", vec |-> UnitVector(dimension(H), IndexOf(monomial_basis(H), m))]

(***************************************************************************)
(* FreeAlgebraQuotient.gen (lines 276-307).                                *)
(***************************************************************************)
genNegativeIndexWraps(H, i) ==
    IF i < -ngens(H) \/ ~(i < ngens(H))
    THEN [status |-> "IndexError", vec |-> <<>>]
    ELSE ElementFromDict(H, FGen(i % ngens(H)))
genFirstGenerator(H, i) ==
    IF i < 0 \/ ~(i < ngens(H))
    THEN [status |-> "IndexError", vec |-> <<>>]
    ELSE ElementFromDict(H, FGen(0))
gen(H, i) ==
    IF i < 0 \/ ~(i < ngens(H))
    THEN [status |-> "IndexError", vec |-> <<>>]
    ELSE ElementFromDict(H, FGen(i))

(***************************************************************************)
(* Actions of SpecQuot.                                                    *)
(***************************************************************************)
\* UniqueRepresentation: the object built from an equal key is returned again.
CacheHit(key) == key \in cache

\* One call FreeAlgebraQuotient(A, mons, mats, names): __classcall__ builds the
\* key; a cached key returns the cached object, otherwise __init__ runs and the
\* object is cached only when it does not raise.
Construct(inp) ==
    LET key == ClassCallKey(inp)
        outcome == IF CacheHit(key) THEN "ok" ELSE InitOutcome(key)
    IN /\ CacheHit(key) \/ outcome # "ok" \/ Cardinality(cache) < MaxObjs
       /\ cache' = IF outcome = "ok" THEN cache \cup {key} ELSE cache
       /\ last' = [op |-> "construct", inp |-> inp, hit |-> CacheHit(key),
                   out |-> [status |-> outcome, obj |-> key]]
       /\ UNCHANGED <<q, idl, mos>>

CallGen(H, i) ==
    /\ last' = [op |-> "gen", inp |-> [H |-> H, i |-> i], hit |-> TRUE, out |-> gen(H, i)]
    /\ UNCHANGED <<cache, q, idl, mos>>

InitQuot ==
    /\ cache = {}
    /\ last = NoCall
    /\ q = IdleQ
    /\ idl = IdleIdl
    /\ mos = IdleMos

NextQuot ==
    \/ \E inp \in QuotInputs : Construct(inp)
    \/ \E H \in cache, i \in (-1)..(MaxGens + 1) : CallGen(H, i)

SpecQuot == InitQuot /\ [][NextQuot]_vars

(***************************************************************************)
(* Arithmetic of the base ring.  A ring is given by its characteristic:    *)
(* 0 stands for ZZ (and for the integral elements of QQ), m > 0 for        *)
(* ZZ/mZ.  Python integers are unbounded: an integer of the ring of        *)
(* characteristic 0 is kept exactly as m * 2^e with m odd (or m = e = 0).  *)
(***************************************************************************)
\* The exponent of the doctests (x**128).
MaxExp == 128

RECURSIVE Pow2(_)
Pow2(k) == IF k = 0 THEN 1 ELSE 2 * Pow2(k - 1)

RECURSIVE NormD(_, _)
NormD(m, e) ==
    IF m = 0 THEN [m |-> 0, e |-> 0]
    ELSE IF m % 2 = 0 THEN NormD(m \div 2, e + 1)
    ELSE [m |-> m, e |-> e]

AddD(a, b) ==
    IF a.m = 0 THEN b
    ELSE IF b.m = 0 THEN a
    ELSE LET e == Min(a.e, b.e)
         IN NormD(a.m * Pow2(a.e - e) + b.m * Pow2(b.e - e), e)

MulD(a, b) == NormD(a.m * b.m, a.e + b.e)

\* R(k) for an integer k, and the ring operations.
FromInt(R, k) == IF R = 0 THEN NormD(k, 0) ELSE k % R
RAdd(R, x, y) == IF R = 0 THEN AddD(x, y) ELSE (x + y) % R
RMul(R, x, y) == IF R = 0 THEN MulD(x, y) ELSE (x * y) % R
RZero(R) == FromInt(R, 0)

\* The decimal numeral of 2^k (to read the doctest's literal
\* 170141183460469231731687303715884105728).  The number is kept in limbs of
\* four decimal digits, least significant first, and grows by factors of 2^13.
RECURSIVE MulLimbs(_, _, _)
MulLimbs(a, k, carry) ==
    IF a = <<>> THEN (IF carry = 0 THEN <<>> ELSE <<carry>>)
    ELSE LET v == a[1] * k + carry
         IN <<v % 10000>> \o MulLimbs(Tail(a), k, v \div 10000)

RECURSIVE Pow2Limbs(_)
Pow2Limbs(k) ==
    IF k <= 13 THEN <<Pow2(k)>> ELSE MulLimbs(Pow2Limbs(k - 13), Pow2(13), 0)

\* The decimal digits, most significant first, of a positive number in limbs.
ToDigits(l) ==
    LET n == 4 * Len(l)
        d == [j \in 1..n |->
                (l[((j - 1) \div 4) + 1] \div (CASE (j - 1) % 4 = 0 -> 1
                                                  [] (j - 1) % 4 = 1 -> 10
                                                  [] (j - 1) % 4 = 2 -> 100
                                                  [] OTHER -> 1000)) % 10]
        top == CHOOSE j \in 1..n : d[j] # 0 /\ \A j2 \in (j + 1)..n : d[j2] = 0
    IN [p \in 1..top |-> d[top + 1 - p]]

Pow2Digits(k) == ToDigits(Pow2Limbs(k))

\* The digits of the coefficient 2^127 printed by the doctest of x**128.
DigitsOfCoefficient == Pow2Digits(MaxExp - 1)

(***************************************************************************)
(* The quaternion data of hamilton_quatalg (lines 434-446) and of the      *)
(* two-generator doctest H2 (lines 198-206): the rows of the action        *)
(* matrices as integers, coerced into the base ring.                       *)
(***************************************************************************)
HamiltonMatsNoSigns ==
    << << <<0, 1, 0, 0>>, <<1, 0, 0, 0>>, <<0, 0, 0, 1>>, <<0, 0, 1, 0>> >>,
       << <<0, 0, 1, 0>>, <<0, 0, 0, 1>>, <<1, 0, 0, 0>>, <<0, 1, 0, 0>> >>,
       << <<0, 0, 0, 1>>, <<0, 0, 1, 0>>, <<0, 1, 0, 0>>, <<1, 0, 0, 0>> >> >>
HamiltonMatsSignSlip ==
    << << <<0, 1, 0, 0>>, <<-1, 0, 0, 0>>, <<0, 0, 0, -1>>, <<0, 0, 1, 0>> >>,
       << <<0, 0, 1, 0>>, <<0, 0, 0, 1>>, <<-1, 0, 0, 0>>, <<0, -1, 0, 0>> >>,
       << <<0, 0, 0, 1>>, <<0, 0, 1, 0>>, <<0, 1, 0, 0>>, <<-1, 0, 0, 0>> >> >>
HamiltonMats ==
    << << <<0, 1, 0, 0>>, <<-1, 0, 0, 0>>, <<0, 0, 0, -1>>, <<0, 0, 1, 0>> >>,
       << <<0, 0, 1, 0>>, <<0, 0, 0, 1>>, <<-1, 0, 0, 0>>, <<0, -1, 0, 0>> >>,
       << <<0, 0, 0, 1>>, <<0, 0, -1, 0>>, <<0, 1, 0, 0>>, <<-1, 0, 0, 0>> >> >>

hamilton_quatalgSwappedMats(R) ==
    [name |-> "H3", R |-> R, n |-> 3,
     mons |-> << <<>>, <<0>>, <<1>>, <<2>> >>,
     mats |-> <<HamiltonMats[2], HamiltonMats[1], HamiltonMats[3]>>]
hamilton_quatalg(R) ==
    [name |-> "H3", R |-> R, n |-> 3,
     mons |-> << <<>>, <<0>>, <<1>>, <<2>> >>,
     mats |-> HamiltonMats]

H2(R) ==
    [name |-> "H2", R |-> R, n |-> 2,
     mons |-> << <<>>, <<0>>, <<1>>, <<0, 1>> >>,
     mats |-> SubSeq(HamiltonMats, 1, 2)]

(***************************************************************************)
(* Elements: coordinate vectors against the monomial basis.                *)
(***************************************************************************)
\* H([c1, ..., cd]): a coefficient list read positionally.
Elem(H, cs) == [k \in 1..Len(cs) |-> FromInt(H.R, cs[k])]

ZeroVec(H) == [k \in 1..Len(H.mons) |-> RZero(H.R)]
VAdd(H, u, v) == [k \in 1..Len(H.mons) |-> RAdd(H.R, u[k], v[k])]
VScale(H, c, u) == [k \in 1..Len(H.mons) |-> RMul(H.R, c, u[k])]

RECURSIVE DotCol(_, _, _, _, _)
DotCol(H, w, M, c, r) ==
    IF r = 0 THEN RZero(H.R)
    ELSE RAdd(H.R, DotCol(H, w, M, c, r - 1), RMul(H.R, w[r], FromInt(H.R, M[r][c])))

\* w * M: the row vector w times the action matrix M.
VecMat(H, w, M) == [c \in 1..Len(H.mons) |-> DotCol(H, w, M, c, Len(H.mons))]

\* The action of the monomial m on w: one matrix per letter, left to right.
RECURSIVE monomial_product(_, _, _)
monomial_product(H, w, m) ==
    IF m = <<>> THEN w
    ELSE monomial_product(H, VecMat(H, w, H.mats[Head(m) + 1]), Tail(m))

\* x * y: every coordinate c of y on the basis monomial B[i] contributes the
\* action of B[i] on c * x.
RECURSIVE MulUpTo(_, _, _, _)
MulUpTo(H, u, v, i) ==
    IF i = 0 THEN ZeroVec(H)
    ELSE LET z == MulUpTo(H, u, v, i - 1)
         IN IF v[i] = RZero(H.R) THEN z
            ELSE VAdd(H, z, monomial_product(H, VScale(H, v[i], u), H.mons[i]))

Mul(H, u, v) == MulUpTo(H, u, v, Len(H.mons))

(***************************************************************************)
(* SpecArith.  A session either multiplies a triple of basis elements      *)
(* both ways, or raises an element to a power by the square-and-multiply   *)
(* loop of x**n.                                                           *)
(***************************************************************************)
\* Characteristics of the base rings tried: ZZ, and ZZ/m for m = 1..4.
Characteristics == 0..4

BasisVec(H, p) == Elem(H, UnitVector(Len(H.mons), p))

\* The elements raised to a power: +-1 +- i +- j +- k and the basis elements.
PowBases ==
    {<<a, b, c, d>> : a \in {-1, 1}, b \in {-1, 1}, c \in {-1, 1}, d \in {-1, 1}}
    \cup {UnitVector(4, p) : p \in 0..3}

QuatAlgebras(R) == {hamilton_quatalg(R), H2(R)}

InitTriple ==
    \E R \in Characteristics : \E H \in QuatAlgebras(R) :
        \E a \in 0..3, b \in 0..3, c \in 0..3 :
            q = [mode |-> "triple", pc |-> "start", H |-> H, a |-> a, b |-> b, c |-> c]

InitPow ==
    \E H \in QuatAlgebras(0) : \E x \in PowBases : \E n \in 1..MaxExp :
        q = [mode |-> "pow", pc |-> "strip", H |-> H, x |-> x, n0 |-> n,
             n |-> n, apow |-> Elem(H, x), res |-> ZeroVec(H)]

ComputeTriple ==
    /\ q.mode = "triple" /\ q.pc = "start"
    /\ LET H == q.H
           a == BasisVec(H, q.a)
           b == BasisVec(H, q.b)
           c == BasisVec(H, q.c)
       IN q' = [mode |-> "triple", pc |-> "done", H |-> H,
                a |-> q.a, b |-> q.b, c |-> q.c,
                ab |-> Mul(H, a, b),
                ab_c |-> Mul(H, Mul(H, a, b), c),
                a_bc |-> Mul(H, a, Mul(H, b, c)),
                a_bpc |-> Mul(H, a, VAdd(H, b, c)),
                ab_p_ac |-> VAdd(H, Mul(H, a, b), Mul(H, a, c))]
    /\ UNCHANGED <<cache, last, idl, mos>>

\* while not (n & 1): apow *= apow; n >>= 1      then  res = apow; n >>= 1
PowStrip ==
    /\ q.mode = "pow" /\ q.pc = "strip"
    /\ q' = IF q.n % 2 = 0
            THEN [q EXCEPT !.apow = Mul(q.H, q.apow, q.apow), !.n = q.n \div 2]
            ELSE [q EXCEPT !.res = q.apow, !.n = q.n \div 2, !.pc = "main"]
    /\ UNCHANGED <<cache, last, idl, mos>>

\* while n: apow *= apow; if n & 1: res = apow * res; n >>= 1
PowMain ==
    /\ q.mode = "pow" /\ q.pc = "main"
    /\ q' = IF q.n = 0 THEN [q EXCEPT !.pc = "done"]
            ELSE LET sq == Mul(q.H, q.apow, q.apow)
                 IN [q EXCEPT !.apow = sq,
                              !.res = IF q.n % 2 = 1 THEN Mul(q.H, sq, q.res) ELSE q.res,
                              !.n = q.n \div 2]
    /\ UNCHANGED <<cache, last, idl, mos>>

InitArith ==
    /\ cache = {}
    /\ last = NoCall
    /\ idl = IdleIdl
    /\ mos = IdleMos
    /\ (InitTriple \/ InitPow)

NextArith == ComputeTriple \/ PowStrip \/ PowMain

SpecArith == InitArith /\ [][NextArith]_vars

(***************************************************************************)
(* Free algebra elements.  A monomial is a word (a sequence of 0-based     *)
(* letters: x1 is 0, x2 is 1, x3 is 2); an element is the function from    *)
(* its support to its nonzero coefficients.  The generators of the ideals  *)
(* tried have leading coefficient 1 or -1, so every quotient               *)
(* LC_rem / g.leading_coefficient() is an integer.                         *)
(***************************************************************************)
NLetters == 3
MaxWord == 3
DefaultMaxSize == 100

Letters == 0..(NLetters - 1)

RECURSIVE WordsOfLen(_)
WordsOfLen(n) ==
    IF n = 0 THEN {<<>>} ELSE {Append(w, a) : w \in WordsOfLen(n - 1), a \in Letters}

Words == UNION {WordsOfLen(n) : n \in 0..MaxWord}

PZero == [m \in {} |-> 0]
IsZero(p) == DOMAIN p = {}
Monomial(w) == [m \in {w} |-> 1]
Binomial(w1, c1, w2, c2) == [m \in {w1, w2} |-> IF m = w1 THEN c1 ELSE c2]

Coeff(p, m) == IF m \in DOMAIN p THEN p[m] ELSE 0

PSub(p, r) ==
    LET S == {m \in DOMAIN p \cup DOMAIN r : Coeff(p, m) - Coeff(r, m) # 0}
    IN [m \in S |-> Coeff(p, m) - Coeff(r, m)]

\* c * l * p * r for a scalar c and words l, r.
TermMul(c, l, p, r) ==
    LET S == {l \o m \o r : m \in DOMAIN p}
    IN [w \in S |-> c * p[CHOOSE m \in DOMAIN p : l \o m \o r = w]]

\* The order of the free monoid: by length, then lexicographically.
WordLess(u, v) ==
    \/ Len(u) < Len(v)
    \/ /\ Len(u) = Len(v)
       /\ \E k \in 1..Len(u) :
            /\ u[k] < v[k]
            /\ \A l \in 1..(k - 1) : u[l] = v[l]

\* leading_item() of a nonzero element: the largest monomial, its coefficient.
LM(p) == CHOOSE m \in DOMAIN p : \A o \in DOMAIN p : o = m \/ WordLess(o, m)
LC(p) == p[LM(p)]

\* The start positions (0-based) of pat as a contiguous factor of w.
Occurrences(pat, w) ==
    {i0 \in 0..(Len(w) - Len(pat)) : SubSeq(w, i0 + 1, i0 + Len(pat)) = pat}

FirstOccurrence(pat, w) ==
    CHOOSE i0 \in Occurrences(pat, w) : \A j \in Occurrences(pat, w) : i0 <= j

\* c / lc for lc in {1, -1}.
Quot(c, lc) == c * lc

\* One pass of the inner loop of reduce (lines 97-113) when LM_G occurs in
\* LM_rem: rem - lefts*g*rights.
ReduceOnceLastOccurrence(rem, g) ==
    LET w == LM(rem)
        i0 == CHOOSE i \in Occurrences(LM(g), w) : \A j \in Occurrences(LM(g), w) : j <= i
    IN PSub(rem, TermMul(Quot(LC(rem), LC(g)),
                         SubSeq(w, 1, i0), g, SubSeq(w, i0 + Len(LM(g)) + 1, Len(w))))
\* Only the leading term of rem is removed, not a multiple of g.
ReduceOnceDropsLeadingTerm(rem, g) ==
    PSub(rem, [m \in {LM(rem)} |-> LC(rem)])
ReduceOnce(rem, g) ==
    CHOOSE res \in UNION {UNION {{PSub(rem, lgr) :
            lgr \in {TermMul(Quot(rem[w], LC(g)),
                             SubSeq(w, 1, i0), g, SubSeq(w, i0 + Len(LM(g)) + 1, Len(w)))}} :
            i0 \in {FirstOccurrence(LM(g), w)}} :
            w \in {LM(rem)}} : TRUE

(***************************************************************************)
(* Overlaps.  The leading monomials u.w of f and w.v of g overlap in a     *)
(* nonempty w shorter than both; the overlap element is                    *)
(* (f/LC(f)).v - u.(g/LC(g)).                                              *)
(***************************************************************************)
OverlapLengths(f, g) ==
    {k \in 1..(Min(Len(LM(f)), Len(LM(g))) - 1) :
        SubSeq(LM(f), Len(LM(f)) - k + 1, Len(LM(f))) = SubSeq(LM(g), 1, k)}

OverlapAt(f, g, k) ==
    PSub(TermMul(Quot(1, LC(f)), <<>>, f, SubSeq(LM(g), k + 1, Len(LM(g)))),
         TermMul(Quot(1, LC(g)), SubSeq(LM(f), 1, Len(LM(f)) - k), g, <<>>))

\* self._overlap_element(f, g): the element of the shortest overlap, or zero
\* (falsy) when the leading monomials do not overlap.
overlap_element(f, g) ==
    IF OverlapLengths(f, g) = {} THEN PZero
    ELSE OverlapAt(f, g, CHOOSE k \in OverlapLengths(f, g) :
                            \A l \in OverlapLengths(f, g) : k <= l)

\* self.reduce_mod(o, G): o with its leading term reduced against G until no
\* leading monomial of G occurs in it.
RECURSIVE reduce_mod(_, _)
reduce_mod(o, G) ==
    IF IsZero(o) THEN o
    ELSE LET R == {g \in G : Occurrences(LM(g), LM(o)) # {}}
         IN IF R = {} THEN o
            ELSE CHOOSE res \in {reduce_mod(n, G) :
                                    n \in {ReduceOnce(o, CHOOSE g \in R : TRUE)}} : TRUE

(***************************************************************************)
(* The ideals and elements tried.                                          *)
(***************************************************************************)
\* A*[x1*x2 - x2*x3]*A, the ideal of the doctest of reduce.
IdealDoctest == {Binomial(<<0, 1>>, 1, <<1, 2>>, -1)}
\* (x1^2 - x2, x2^2 - x1): the leading monomials do not overlap.
IdealSquares == {Binomial(<<0, 0>>, 1, <<1>>, -1), Binomial(<<1, 1>>, 1, <<0>>, -1)}
\* (x1*x2 - x1, x2*x1 - x2): an overlap that reduces to a nonzero element.
IdealPending == {Binomial(<<0, 1>>, 1, <<0>>, -1), Binomial(<<1, 0>>, 1, <<1>>, -1)}
\* (x1*x2, x2*x1 - x2^2): a nonzero overlap that reduces to zero.
IdealResolved == {Monomial(<<0, 1>>), Binomial(<<1, 0>>, 1, <<1, 1>>, -1)}
\* (x1, x2 - x1): linear generators, no overlaps.
IdealLinear == {Monomial(<<0>>), Binomial(<<1>>, 1, <<0>>, -1)}
\* (x1), and (x1, x2, x3).
IdealLetter == {Monomial(<<0>>)}
IdealLetters == {Monomial(<<a>>) : a \in Letters}

Ideals ==
    {IdealDoctest, IdealSquares, IdealPending, IdealResolved, IdealLinear, IdealLetter,
     IdealLetters}

Elements(I) == {Monomial(w) : w \in Words} \cup {PZero} \cup I

MaxSizes == {1, 2, 3, DefaultMaxSize}

\* Every order in which the elements of the set G can be listed.
Listings(G) ==
    {s \in [1..Cardinality(G) -> G] : \A a, b \in 1..Cardinality(G) : a # b => s[a] # s[b]}

(***************************************************************************)
(* SpecIdeal: one call I.groebner_basis(max_size) or I.reduce(f).          *)
(*   pc = "gb_start"   lines 118-126                                       *)
(*   pc = "gb_loop"    one iteration of the while loop, lines 127-140      *)
(*   pc = "red_loop"   one iteration of the inner loop of reduce           *)
(* GNone records that the name G is bound to None (the value of set.add).  *)
(***************************************************************************)
IdealCall(call, I, ms, f) ==
    [pc |-> "gb_start", call |-> call, gens |-> I, max_size |-> ms, f |-> f,
     G |-> {}, GNone |-> FALSE, O |-> {}, counter |-> 0, capHit |-> FALSE,
     GB |-> <<>>, gi |-> 0, rem |-> PZero, steps |-> 0, out |-> "running"]

InitIdeal ==
    /\ cache = {}
    /\ last = NoCall
    /\ q = IdleQ
    /\ mos = IdleMos
    /\ \E I \in Ideals :
        \/ \E ms \in MaxSizes : idl = IdealCall("groebner_basis", I, ms, PZero)
        \/ \E f \in Elements(I) : idl = IdealCall("reduce", I, DefaultMaxSize, f)

\* G = set(self.gens()); counter = len(G); the overlaps of every pair, both ways.
GBStart ==
    /\ idl.pc = "gb_start"
    /\ LET G == idl.gens
           pairs == {<<f, g>> \in G \X G : f # g}
       IN idl' = [idl EXCEPT !.pc = "gb_loop", !.G = G, !.counter = Cardinality(G),
                            !.O = {overlap_element(p[1], p[2]) : p \in pairs} \ {PZero}]
    /\ UNCHANGED <<cache, last, q, mos>>

\* The basis is handed to the caller: groebner_basis returns, reduce goes on.
Returned(s, GB) ==
    IF s.call = "groebner_basis"
    THEN [s EXCEPT !.pc = "done", !.GB = GB, !.out = "ok"]
    ELSE [s EXCEPT !.pc = "red_loop", !.GB = GB, !.gi = 1, !.rem = s.f]

Raised(s, err) == [s EXCEPT !.pc = "done", !.out = err]

\* while O is empty: return sorted(G), which raises TypeError when G is None.
GBReturnSorted ==
    /\ idl.pc = "gb_loop" /\ idl.O = {}
    /\ IF idl.GNone
       THEN idl' = Raised(idl, "TypeError")
       ELSE \E GB \in Listings(idl.G) : idl' = Returned(idl, GB)
    /\ UNCHANGED <<cache, last, q, mos>>

\* counter >= max_size: warnings.warn(...), and warnings is not imported.
GBCapReached ==
    /\ idl.pc = "gb_loop" /\ idl.O # {} /\ idl.counter >= idl.max_size
    /\ idl' = [Raised(idl, "NameError") EXCEPT !.capHit = TRUE]
    /\ UNCHANGED <<cache, last, q, mos>>

\* The loop body without O.pop(): the overlap stays pending.
GBResolveKeepsOverlap ==
    /\ idl.pc = "gb_loop" /\ idl.O # {} /\ idl.counter < idl.max_size
    /\ \E o \in idl.O :
        IF idl.GNone
        THEN idl' = Raised(idl, "TypeError")
        ELSE \E r \in {reduce_mod(o, idl.G)} :
                idl' = IF IsZero(r)
                       THEN idl
                       ELSE [idl EXCEPT !.G = @ \cup {r}, !.GNone = TRUE, !.counter = @ + 1]
    /\ UNCHANGED <<cache, last, q, mos>>

\* o = O.pop(); r = self.reduce_mod(o, G); if r: G = G.add(r); counter += 1;
\* the update of O iterates over G, now None: TypeError, caught, continue.
GBResolve ==
    /\ idl.pc = "gb_loop" /\ idl.O # {} /\ idl.counter < idl.max_size
    /\ \E o \in idl.O :
        IF idl.GNone
        THEN idl' = Raised([idl EXCEPT !.O = @ \ {o}], "TypeError")
        ELSE \E r \in {reduce_mod(o, idl.G)} :
                idl' = IF IsZero(r)
                       THEN [idl EXCEPT !.O = @ \ {o}]
                       ELSE [idl EXCEPT !.O = @ \ {o}, !.G = @ \cup {r},
                                        !.GNone = TRUE, !.counter = @ + 1]
    /\ UNCHANGED <<cache, last, q, mos>>

\* The inner loop subtracting g*rights without the factor lefts.
ReduceStepWithoutLefts ==
    /\ idl.pc = "red_loop"
    /\ idl' =
        IF idl.gi > Len(idl.GB) THEN [idl EXCEPT !.pc = "done", !.out = "ok"]
        ELSE IF IsZero(idl.rem) THEN Raised(idl, "ValueError")
        ELSE LET g == idl.GB[idl.gi]
             IN IF Occurrences(LM(g), LM(idl.rem)) = {}
                THEN [idl EXCEPT !.gi = @ + 1]
                ELSE [idl EXCEPT !.rem = PSub(idl.rem, TermMul(1, <<>>, g, <<>>)),
                                 !.steps = @ + 1]
    /\ UNCHANGED <<cache, last, q, mos>>

\* reduce, lines 87-115: the for loop over GB with its inner while loop.
ReduceStep ==
    /\ idl.pc = "red_loop"
    /\ idl' =
        IF idl.gi > Len(idl.GB) THEN [idl EXCEPT !.pc = "done", !.out = "ok"]
        ELSE IF IsZero(idl.rem) THEN Raised(idl, "ValueError")
        ELSE LET g == idl.GB[idl.gi]
             IN IF Occurrences(LM(g), LM(idl.rem)) = {}
                THEN [idl EXCEPT !.gi = @ + 1]
                ELSE [idl EXCEPT !.rem = ReduceOnce(idl.rem, g), !.steps = @ + 1]
    /\ UNCHANGED <<cache, last, q, mos>>

NextIdeal == GBStart \/ GBReturnSorted \/ GBCapReached \/ GBResolve \/ ReduceStep

SpecIdeal == InitIdeal /\ [][NextIdeal]_vars

\* The call runs on one thread of control: while a step of it is enabled, a
\* step is eventually taken.
SpecIdealFair == InitIdeal /\ [][NextIdeal]_vars /\ WF_vars(NextIdeal)

(***************************************************************************)
(* MoseleyAlgebra.__init__ (moseley.py, lines 218-277) and the two         *)
(* specializations (lines 1039-1057).                                      *)
(***************************************************************************)
\* The bases tried: QQ (a field), ZZ (a ring), the symmetric group S4.
MosBases == {"QQ", "ZZ", "S4"}
InRings(b) == b \in {"QQ", "ZZ"}

\* braid(3); the three lines x+y-1, x-y+1, y+1 of the doctest (not central);
\* the two coordinate lines of the plane; the point x = 1 of the line.
Arrangements ==
    {[name |-> "braid3", central |-> TRUE, n |-> 3],
     [name |-> "three_lines", central |-> FALSE, n |-> 3],
     [name |-> "coordinate2", central |-> TRUE, n |-> 2],
     [name |-> "point", central |-> FALSE, n |-> 1]}

\* The values of u tried: strings, integers, the rational 1/2, a list.
UStr(s) == [kind |-> "str", str |-> s, num |-> 0]
UInt(k) == [kind |-> "int", str |-> "", num |-> k]
UHalf == [kind |-> "rat", str |-> "", num |-> 1]
UList == [kind |-> "list", str |-> "", num |-> 1]
UValues == {UStr("z0"), UStr("u"), UStr(""), UInt(0), UInt(1), UInt(2), UHalf, UList}

\* bool(u), u in base_ring, isinstance(u, str).
Truthy(u) ==
    IF u.kind = "str" THEN u.str # ""
    ELSE IF u.kind = "int" THEN u.num # 0
    ELSE TRUE
InBaseRing(u, base) ==
    IF u.kind = "int" THEN TRUE
    ELSE IF u.kind = "rat" THEN base = "QQ"
    ELSE FALSE

\* The calls: MoseleyAlgebra(base_ring, arrangement[, u]) and the two subclasses,
\* which pass u = 1 and u = 0.
MosInputs ==
    {[cls |-> "MoseleyAlgebra", base |-> b, arr |-> a, u |-> u] :
        b \in MosBases, a \in Arrangements, u \in UValues}
    \cup {[cls |-> "VarchenkoGelfandAlgebra", base |-> b, arr |-> a, u |-> UInt(1)] :
        b \in MosBases, a \in Arrangements}
    \cup {[cls |-> "CordovilAlgebra", base |-> b, arr |-> a, u |-> UInt(0)] :
        b \in MosBases, a \in Arrangements}

MosRaised(err, msg) ==
    [status |-> err, msg |-> msg, homogenized |-> FALSE, uSet |-> FALSE, coercions |-> {}]

\* _register_coercions (lines 279-299 and 1059-1096): the module morphisms
\* registered, as <<domain, codomain>>.
RegisteredCoercions(cls) ==
    {<<"N", "X">>, <<"X", "N">>}
    \cup (IF cls = "VarchenkoGelfandAlgebra"
          THEN {<<"N", "C">>, <<"C", "C">>, <<"C", "X">>, <<"X", "C">>}
          ELSE {})

\* Lines 262-277: self._u is set only for a truthy u; normal_basis(), called by
\* _register_coercions, reads it in _get_polynomial_vars (lines 371-387).
AfterValidation(inp) ==
    LET u == inp.u
        uSet == Truthy(u)
        known == ~Truthy(u) \/ InBaseRing(u, inp.base) \/ u.kind = "str"
        homogenized == Truthy(u) /\ ~InBaseRing(u, inp.base) /\ u.kind = "str"
    IN IF ~known THEN MosRaised("ValueError", "u")
       ELSE IF ~homogenized /\ ~uSet THEN MosRaised("AttributeError", "_u")
       ELSE [status |-> "ok", msg |-> "", homogenized |-> homogenized,
             uSet |-> uSet, coercions |-> RegisteredCoercions(inp.cls)]

\* Lines 251-258: the two checks that open __init__.
MoseleyInitNoRingCheck(inp) ==
    IF ~inp.arr.central
    THEN MosRaised("ValueError", "the hyperplane arrangement must be central")
    ELSE AfterValidation(inp)
MoseleyInit(inp) ==
    IF ~inp.arr.central
    THEN MosRaised("ValueError", "the hyperplane arrangement must be central")
    ELSE IF ~InRings(inp.base)
    THEN MosRaised("ValueError", "must be a ring")
    ELSE AfterValidation(inp)

MosConstruct(inp) ==
    /\ mos' = [op |-> "construct", inp |-> inp, out |-> MoseleyInit(inp)]
    /\ UNCHANGED <<cache, last, q, idl>>

InitMos ==
    /\ cache = {}
    /\ last = NoCall
    /\ q = IdleQ
    /\ idl = IdleIdl
    /\ mos = IdleMos

(***************************************************************************)
(* The Varchenko-Gelfand algebra of a central arrangement (moseley.py).    *)
(* A hyperplane arrangement is given by the normals of its hyperplanes; a  *)
(* polynomial is a function from exponent vectors to nonzero integers.     *)
(* Where a value is used several times it is bound once, as                *)
(* CHOOSE r \in {e(v) : v \in {value}} : TRUE.                             *)
(***************************************************************************)
GridRadius == 4
MaxCoef == 1
MaxFactors == 3

\* braid(3), the two coordinate lines of the plane, and the 6-hyperplane
\* arrangement of the covectors_in_cone doctest (lines 1140-1154).
VGArrangements ==
    {[name |-> "braid3", central |-> TRUE, n |-> 3],
     [name |-> "coordinate2", central |-> TRUE, n |-> 2],
     [name |-> "cone6", central |-> TRUE, n |-> 6]}

\* A.hyperplanes(): the normal of each hyperplane, in the order of the list.
normals(A) ==
    CASE A.name = "braid3" -> <<(<<0, 1, -1>>), (<<1, -1, 0>>), (<<1, 0, -1>>)>>
      [] A.name = "coordinate2" -> <<(<<1, 0>>), (<<0, 1>>)>>
      [] A.name = "cone6" ->
            <<(<<-1, 0, 1>>), (<<0, 0, 1>>), (<<1, -5, 0>>),
              (<<1, -1, 0>>), (<<1, 1, -2>>), (<<1, 1, 0>>)>>

\* The value of a function, with every image computed.
Eval(f) == CHOOSE g \in {f} : g = g

RECURSIVE SumOver(_, _)
SumOver(f, S) ==
    IF S = {} THEN 0
    ELSE LET s == CHOOSE s \in S : TRUE IN f[s] + SumOver(f, S \ {s})

\* The sign vectors of A.regions() (A.sign_vector of a point of each region),
\* in the order of the list: the sign vectors of the points off every
\* hyperplane.  For braid(3) the order is the one of the covector basis in the
\* doctests (lines 145-156), otherwise decreasing lexicographic order.
regions(A) ==
    LET Value(i, p) == SumOver([j \in 1..Len(p) |-> normals(A)[i][j] * p[j]], 1..Len(p))
        Sign(k) == IF k > 0 THEN 1 ELSE IF k < 0 THEN -1 ELSE 0
        sign_vector(p) == [i \in 1..A.n |-> Sign(Value(i, p))]
        Points == [1..Len(normals(A)[1]) -> (-GridRadius)..GridRadius]
        Greater(a, b) == \E i \in 1..Len(a) : a[i] > b[i] /\ \A j \in 1..(i - 1) : a[j] = b[j]
    IN IF A.name = "braid3"
       THEN <<(<<1, 1, 1>>), (<<1, -1, 1>>), (<<1, -1, -1>>),
              (<<-1, -1, -1>>), (<<-1, 1, -1>>), (<<-1, 1, 1>>)>>
       ELSE CHOOSE r \in
              {Eval([i \in 1..Cardinality(S) |->
                       CHOOSE c \in S : Cardinality({d \in S : Greater(d, c)}) = i - 1]) :
                 S \in {{sv \in {sign_vector(p) : p \in Points} :
                            \A i \in 1..A.n : sv[i] # 0}}} : TRUE

\* region.Hrepresentation() for the region of sign vector c: the hyperplanes
\* that bound the region, which are those across which another region lies.
Hrepresentation(V, c) ==
    {i \in 0..(V.n - 1) :
        [j \in 1..Len(c) |-> IF j = i + 1 THEN -c[j] ELSE c[j]] \in Range(V.regions)}

\* The polynomial c * x(i-1) in nv variables, and the constant c for i = 0.
PTerm(nv, i, c) ==
    IF c = 0 THEN PZero ELSE [m \in {[j \in 1..nv |-> IF j = i THEN 1 ELSE 0]} |-> c]
PAdd(p, r) ==
    CHOOSE res \in
      {Eval([m \in {m \in DOMAIN a \cup DOMAIN b : Coeff(a, m) + Coeff(b, m) # 0} |->
               Coeff(a, m) + Coeff(b, m)]) : a \in {p}, b \in {r}} : TRUE
PScale(c, p) ==
    CHOOSE res \in
      {IF k = 0 THEN PZero ELSE Eval([m \in DOMAIN a |-> k * a[m]]) : k \in {c}, a \in {p}} : TRUE
PMul(p, r) ==
    LET Divides(a, w) == \A j \in 1..Len(a) : a[j] <= w[j]
        Quo(w, a) == [j \in 1..Len(a) |-> w[j] - a[j]]
        co(f, g, w) ==
          SumOver([a \in DOMAIN f |->
                     IF Divides(a, w) /\ Quo(w, a) \in DOMAIN g THEN f[a] * g[Quo(w, a)] ELSE 0],
                  DOMAIN f)
    IN CHOOSE res \in
         {Eval([w \in {w \in {[j \in 1..Len(a) |-> a[j] + b[j]] :
                                 a \in DOMAIN f, b \in DOMAIN g} : co(f, g, w) # 0} |->
                  co(f, g, w)]) : f \in {p}, g \in {r}} : TRUE

\* sum of c[k] * img[k] over the keys k of c, for polynomials or elements img[k].
LinearExtension(c, img) ==
    LET Ext(cv, im) ==
          LET co(w) == LET K == {k \in DOMAIN cv : w \in DOMAIN im[k]}
                       IN SumOver([k \in K |-> cv[k] * im[k][w]], K)
          IN Eval([w \in {w \in UNION {DOMAIN im[k] : k \in DOMAIN cv} :
                              \E t \in {co(w)} : t # 0} |-> co(w)])
    IN CHOOSE r \in {Ext(cv, im) : cv \in {c}, im \in {Eval(img)}} : TRUE

\* The matroid of the arrangement (self._matroid.circuits()): a set of
\* hyperplanes is dependent when a nonzero combination of its normals
\* vanishes; the circuits are the minimal dependent sets.
circuits(A) ==
    LET Dependent(S) ==
          \E v \in [S -> (-MaxCoef)..MaxCoef] :
             /\ \E i \in S : v[i] # 0
             /\ \A j \in 1..Len(normals(A)[1]) :
                  SumOver([i \in S |-> v[i] * normals(A)[i + 1][j]], S) = 0
    IN {S \in SUBSET (0..(A.n - 1)) :
          Dependent(S) /\ \A T \in SUBSET S : T # S => ~Dependent(T)}

\* m.left_kernel().basis() for the matrix m of the normals of a circuit S
\* (lines 431-432): one vector, whose first nonzero entry is positive.
left_kernel_basis(A, S) ==
    {CHOOSE v \in [S -> (-MaxCoef)..MaxCoef] :
        /\ \A i \in S : i <= (CHOOSE l \in S : \A o \in S : l <= o) => v[i] = 1
        /\ \A j \in 1..Len(normals(A)[1]) :
             SumOver([i \in S |-> v[i] * normals(A)[i + 1][j]], S) = 0}

\* The product of the polynomials f[s], s in S, in the ring R; in a quotient
\* ring the product is reduced by the rules of R (the generators of the ideal,
\* each read as: leading monomial -> minus the other terms).
RECURSIVE lift(_, _)
lift(R, p) ==
    LET Reducible(m) == \E r \in R.rules : \A j \in 1..Len(m) : r.lm[j] <= m[j]
        Rewrite(m) ==
          IF ~Reducible(m) THEN [w \in {m} |-> 1]
          ELSE CHOOSE t \in
                 {PMul(r.tail, [w \in {[j \in 1..Len(m) |-> m[j] - r.lm[j]]} |-> 1]) :
                    r \in {CHOOSE r \in R.rules : \A j \in 1..Len(m) : r.lm[j] <= m[j]}} : TRUE
    IN CHOOSE res \in {IF \A m \in DOMAIN pv : ~Reducible(m) THEN pv
                     ELSE lift(R, LinearExtension(pv, [m \in DOMAIN pv |-> Rewrite(m)])) :
                       pv \in {p}} : TRUE

RECURSIVE ProdOver(_, _, _)
ProdOver(R, f, S) ==
    CHOOSE r \in
      {IF T = {} THEN PTerm(R.n, 0, 1)
       ELSE CHOOSE t \in {lift(R, PMul(f[s], ProdOver(R, f, T \ {s}))) :
                            s \in {CHOOSE s \in T : TRUE}} : TRUE : T \in {S}} : TRUE

\* underlying_polynomial_ring (lines 410-436): the list ideal_gens, for the
\* variables of _get_polynomial_vars (lines 369-387): x0, ..., x(n-1) and z0,
\* which is the last variable of the ring when the algebra is homogenized and
\* the constant u otherwise.
ideal_gens(A, hom, u) ==
    LET nv == IF hom THEN A.n + 1 ELSE A.n
        F == [n |-> nv, rules |-> {}]
        x == [i \in 0..(A.n - 1) |-> PTerm(nv, i + 1, 1)]
        z0 == IF hom THEN PTerm(nv, A.n + 1, 1) ELSE PTerm(nv, 0, u)
        xz == [i \in 0..(A.n - 1) |-> PAdd(x[i], PScale(-1, z0))]
        Code(S) == SumOver([i \in S |-> Pow2(i)], S)
        cs == [k \in 1..Cardinality(circuits(A)) |->
                 CHOOSE S \in circuits(A) :
                    Cardinality({T \in circuits(A) : Code(T) < Code(S)}) = k - 1]
        relation(S, v) ==
          LET I == {i \in S : v[i] > 0}
              J == {j \in S : v[j] < 0}
          IN PAdd(PMul(ProdOver(F, x, I), ProdOver(F, xz, J)),
                  PScale(-1, PMul(ProdOver(F, xz, I), ProdOver(F, x, J))))
    IN [i \in 1..A.n |-> PAdd(PMul(x[i - 1], x[i - 1]), PScale(-1, PMul(x[i - 1], z0)))]
       \o (IF hom THEN <<PAdd(PMul(z0, z0), PTerm(nv, 0, -1))>> ELSE <<>>)
       \o [k \in 1..Len(cs) |->
             relation(cs[k], CHOOSE v \in left_kernel_basis(A, cs[k]) : TRUE)]

\* The three bases: the normal basis X, the no-broken-circuits basis N and
\* the covector basis C.  An element of a basis is a function from keys of the
\* basis to nonzero coefficients; the keys of X and N are sets of hyperplane
\* indices, the keys of C are the sign vectors of the regions.
BasisNames == {"X", "N", "C"}

\* Normal.__init__ (lines 768-776): the keys of the monomials of
\* I.normal_basis(), the monomials that no leading monomial divides, by
\* decreasing degree and increasing degrevlex order within a degree.
normal_basis_keys(V) ==
    LET Degree(m) == SumOver(m, DOMAIN m)
        Less(a, b) ==
          \E i \in 1..Len(a) : a[i] > b[i] /\ \A j \in (i + 1)..Len(a) : a[j] = b[j]
        Before(a, b) ==
          \/ Degree(a) > Degree(b)
          \/ Degree(a) = Degree(b) /\ Less(a, b)
    IN CHOOSE r \in
         {Eval([i \in 1..Cardinality(S) |->
                  CHOOSE k \in {{j - 1 : j \in {j \in 1..V.n : m[j] # 0}} :
                                  m \in {m \in S : Cardinality({o \in S : Before(o, m)}) = i - 1}} :
                     TRUE]) :
            S \in {{m \in [1..V.n -> {0, 1}] :
                      \A ru \in V.rules : \E j \in 1..V.n : ru.lm[j] > m[j]}}} : TRUE

\* self._matroid.no_broken_circuits_sets() (line 951): the sets of
\* hyperplanes that contain no circuit with its least element removed, by
\* size and then lexicographically.
no_broken_circuits_sets(A) ==
    LET Least(S) == CHOOSE l \in S : \A o \in S : l <= o
        Before(S, T) ==
          \/ Cardinality(S) < Cardinality(T)
          \/ /\ Cardinality(S) = Cardinality(T)
             /\ S # T
             /\ Least((S \ T) \cup (T \ S)) \in S
    IN CHOOSE r \in
         {Eval([i \in 1..Cardinality(NBC) |->
                  CHOOSE S \in NBC : Cardinality({T \in NBC : Before(T, S)}) = i - 1]) :
            NBC \in {{S \in SUBSET (0..(A.n - 1)) :
                        \A c \in circuits(A) : ~((c \ {Least(c)}) \subseteq S)}}} : TRUE

\* to_polynomial_on_basis of Normal (lines 870-872), of NBC (lines 1032-1034)
\* and of Covector (lines 1340-1358, for the sign vector of a region).
to_polynomial_on_basis(V, B, k) ==
    IF B = "C"
    THEN ProdOver(V, [i \in Hrepresentation(V, k) |->
                        IF k[i + 1] = 1 THEN PTerm(V.n, i + 1, 1)
                        ELSE PAdd(PTerm(V.n, 0, 1), PTerm(V.n, i + 1, -1))],
                  Hrepresentation(V, k))
    ELSE ProdOver(V, [i \in k |-> PTerm(V.n, i + 1, 1)], k)

\* from_vector with the keys of the basis taken in the reverse order.
from_vectorReversedKeys(V, B, v) ==
    CHOOSE e \in
      {Eval([k \in {V.keys[B][Len(w) + 1 - i] : i \in {i \in 1..Len(w) : w[i] # 0}} |->
               w[CHOOSE i \in 1..Len(w) : V.keys[B][Len(w) + 1 - i] = k]]) : w \in {v}} : TRUE

\* Element.to_vector() and from_vector of a basis with the keys V.keys[B].
to_vector(V, B, e) ==
    CHOOSE v \in {Eval([i \in 1..Len(V.keys[B]) |-> Coeff(a, V.keys[B][i])]) : a \in {e}} : TRUE
from_vector(V, B, v) ==
    CHOOSE e \in
      {Eval([k \in {V.keys[B][i] : i \in {i \in 1..Len(w) : w[i] # 0}} |->
               w[CHOOSE i \in 1..Len(w) : V.keys[B][i] = k]]) : w \in {v}} : TRUE

\* Normal.from_polynomial (lines 896-903).
NormalFromPolynomial(V, p) ==
    CHOOSE e \in
      {Eval([k \in {{j - 1 : j \in {j \in 1..V.n : m[j] # 0}} : m \in DOMAIN l} |->
               l[CHOOSE m \in DOMAIN l : {j - 1 : j \in {j \in 1..V.n : m[j] # 0}} = k]]) :
         l \in {lift(V, p)}} : TRUE

\* The determinant of a square matrix, by expansion along the first row.
RECURSIVE Det(_)
Det(M) ==
    IF Len(M) = 0 THEN 1
    ELSE LET Minor(j) ==
               [r \in 1..(Len(M) - 1) |->
                  [c \in 1..(Len(M) - 1) |-> M[r + 1][IF c < j THEN c ELSE c + 1]]]
             J == {j \in 1..Len(M) : M[1][j] # 0}
         IN SumOver([j \in J |->
                       (IF j % 2 = 1 THEN 1 ELSE -1) * M[1][j] * Det(Eval(Minor(j)))], J)

\* solve_left without the division by the determinant.
solve_leftNoDeterminant(V, B, v) ==
    CHOOSE z \in
      {Eval([j \in 1..Len(w) |->
               SumOver([i \in 1..Len(w) |-> w[i] * V.adj[B][i][j]], 1..Len(w))]) :
         w \in {v}} : TRUE

\* M.solve_left(v) for the matrix M of change_of_basis_matrix(B, X) (lines
\* 704-706): the row vector z with z * M = v.  V.adj[B] is the adjugate of M
\* and V.det[B] its determinant, which is 1 or -1.
solve_left(V, B, v) ==
    CHOOSE z \in
      {Eval([j \in 1..Len(w) |->
               SumOver([i \in 1..Len(w) |-> w[i] * V.adj[B][i][j]], 1..Len(w)) \div V.det[B]]) :
         w \in {v}} : TRUE

\* from_polynomial of Normal (lines 896-903) and of the other bases (lines
\* 703-706).
from_polynomial(V, B, p) ==
    IF B = "X" THEN NormalFromPolynomial(V, p)
    ELSE from_vector(V, B, solve_left(V, B, to_vector(V, "X", NormalFromPolynomial(V, p))))

\* change_of_basis_matrix (lines 484-485).
change_of_basis_matrix(V, basis0, basis1) ==
    Eval([i \in 1..Len(V.keys[basis0]) |->
            to_vector(V, basis1,
                      from_polynomial(V, basis1,
                                      to_polynomial_on_basis(V, basis0, V.keys[basis0][i])))])

\* product_on_basis with the sum of the two polynomials in place of the product.
product_on_basisOfSum(V, B, k1, k2) ==
    from_polynomial(V, B, PAdd(to_polynomial_on_basis(V, B, k1),
                               to_polynomial_on_basis(V, B, k2)))

\* product_on_basis (lines 614-616).
product_on_basis(V, B, k1, k2) ==
    from_polynomial(V, B, PMul(to_polynomial_on_basis(V, B, k1),
                               to_polynomial_on_basis(V, B, k2)))

\* The product of two elements with the coefficients added, not multiplied.
ProductAddingCoefficients(V, B, e1, e2) ==
    CHOOSE e \in
      {LinearExtension([kk \in (DOMAIN a) \X (DOMAIN b) |-> a[kk[1]] + b[kk[2]]],
                       [kk \in (DOMAIN a) \X (DOMAIN b) |->
                          product_on_basis(V, B, kk[1], kk[2])]) : a \in {e1}, b \in {e2}} : TRUE

\* The product of two elements of the basis B: the bilinear extension of
\* product_on_basis.
Product(V, B, e1, e2) ==
    CHOOSE e \in
      {LinearExtension([kk \in (DOMAIN a) \X (DOMAIN b) |-> a[kk[1]] * b[kk[2]]],
                       [kk \in (DOMAIN a) \X (DOMAIN b) |->
                          product_on_basis(V, B, kk[1], kk[2])]) : a \in {e1}, b \in {e2}} : TRUE

\* The algebra of each arrangement after construction: the regions, the rules
\* of the defining ideal, the keys of the bases, and for each basis the matrix
\* to the normal basis with its determinant and adjugate.  The arrangement of
\* the cone doctest is used for its regions only.
VGAlgebras ==
    LET RuleOf(g) ==
          LET Degree(m) == SumOver(m, DOMAIN m)
              Greater(a, b) ==
                \/ Degree(a) > Degree(b)
                \/ /\ Degree(a) = Degree(b)
                   /\ \E i \in 1..Len(a) : a[i] < b[i] /\ \A j \in (i + 1)..Len(a) : a[j] = b[j]
              lm == CHOOSE m \in DOMAIN g : \A o \in DOMAIN g : o # m => Greater(m, o)
          IN [lm |-> lm,
              tail |-> PScale(-g[lm], [m \in DOMAIN g \ {lm} |-> g[m]])]
        Unit(n, i) == [j \in 1..n |-> IF j = i THEN 1 ELSE 0]
        Replace(M, j, v) == [r \in 1..Len(M) |-> IF r = j THEN v ELSE M[r]]
        Adjugate(M) ==
          Eval([i \in 1..Len(M) |->
                  Eval([j \in 1..Len(M) |-> Det(Replace(M, j, Unit(Len(M), i)))])])
        Ring(A) ==
          [arr |-> A, n |-> A.n, regions |-> regions(A),
           rules |-> {RuleOf(g) : g \in Range(ideal_gens(A, FALSE, 1))}]
        WithKeys(R) ==
          R @@ [keys |-> Eval([B \in BasisNames |->
                                 CASE B = "X" -> normal_basis_keys(R)
                                   [] B = "N" -> no_broken_circuits_sets(R.arr)
                                   [] B = "C" -> R.regions])]
        WithMatrices(K, M) ==
          K @@ [toX |-> M,
                det |-> Eval([B \in BasisNames |-> Det(M[B])]),
                adj |-> Eval([B \in BasisNames |-> Adjugate(M[B])])]
    IN Eval([A \in VGArrangements |->
               IF A.name = "cone6" THEN [arr |-> A, n |-> A.n, regions |-> regions(A)]
               ELSE CHOOSE W \in
                      {WithMatrices(K, Eval([B \in BasisNames |->
                                               change_of_basis_matrix(K, B, "X")])) :
                         K \in {WithKeys(Ring(A))}} : TRUE])

\* A path that starts with the registered morphism from B0 to itself where
\* no morphism from B0 to B1 is registered.
CoercionPathThroughDomain(cls, B0, B1) ==
    IF B0 = B1 THEN <<B0>>
    ELSE IF <<B0, B1>> \in RegisteredCoercions(cls) THEN <<B0, B1>>
    ELSE <<B0, B0, B1>>

\* The coercion from basis B0 to basis B1 that the coercion model finds among
\* the registered morphisms, as the list of the bases passed: the identity, a
\* registered morphism, or two registered morphisms composed; <<>> if none.
CoercionPath(cls, B0, B1) ==
    IF B0 = B1 THEN <<B0>>
    ELSE IF <<B0, B1>> \in RegisteredCoercions(cls) THEN <<B0, B1>>
    ELSE IF \E M \in BasisNames \ {B0, B1} :
               <<B0, M>> \in RegisteredCoercions(cls) /\ <<M, B1>> \in RegisteredCoercions(cls)
    THEN <<B0,
           CHOOSE M \in BasisNames \ {B0, B1} :
              <<B0, M>> \in RegisteredCoercions(cls) /\ <<M, B1>> \in RegisteredCoercions(cls),
           B1>>
    ELSE <<>>

\* The element taken to the last basis of the path, with the opposite sign.
ConvertOpposite(V, path, e) ==
    CHOOSE b \in
      {IF Len(path) <= 1 THEN a
       ELSE LinearExtension([k \in DOMAIN a |-> -a[k]], [k \in DOMAIN a |->
               from_polynomial(V, path[Len(path)],
                               to_polynomial_on_basis(V, path[1], k))]) : a \in {e}} : TRUE

\* The element e of the basis path[1] taken along the path: each step is the
\* module morphism with on_basis = lambda I:
\* B1.from_polynomial(B0.to_polynomial_on_basis(I)) (lines 298-299, 1093-1096).
RECURSIVE Convert(_, _, _)
Convert(V, path, e) ==
    CHOOSE b \in
      {IF Len(path) <= 1 THEN a
       ELSE Convert(V, Tail(path),
                    LinearExtension(a, [k \in DOMAIN a |->
                       from_polynomial(V, path[2], to_polynomial_on_basis(V, path[1], k))])) :
         a \in {e}} : TRUE

\* covectors_in_cone with a strict inequality.
covectors_in_coneStrict(V, cone_mask) ==
    LET Quotient(a, s) == IF s = 1 THEN a ELSE -a
    IN SelectSeq(V.regions,
                 LAMBDA covector :
                    \A i \in 1..Len(covector) : Quotient(cone_mask[i], covector[i]) > 0)

\* covectors_in_cone (lines 1220-1226).
covectors_in_cone(V, cone_mask) ==
    LET Quotient(a, s) == IF s = 1 THEN a ELSE -a
    IN SelectSeq(V.regions,
                 LAMBDA covector :
                    \A i \in 1..Len(covector) : Quotient(cone_mask[i], covector[i]) >= 0)

(***************************************************************************)
(* The calls on a constructed Varchenko-Gelfand algebra: mos holds the     *)
(* pending call, and after the step that executes it, what it returned.    *)
(***************************************************************************)
\* Covector.__getitem__ (lines 1273-1275).
CovectorGetItem ==
    /\ mos.op = "call" /\ mos.fn = "C.__getitem__"
    /\ mos' = [mos EXCEPT !.op = "return",
                 !.out = IF mos.arg \notin Range(mos.alg.keys["C"])
                         THEN [status |-> "ValueError",
                               msg |-> "input is not a covector of a region of the hyperplane arrangement",
                               elt |-> PZero]
                         ELSE [status |-> "ok", msg |-> "", elt |-> Monomial(mos.arg)]]
    /\ UNCHANGED <<cache, last, q, idl>>

\* to_polynomial_on_basis with x[i] and 1 - x[i] exchanged.
CovectorToPolynomialOnBasisOppositeSide ==
    /\ mos.op = "call" /\ mos.fn = "C.to_polynomial_on_basis"
    /\ mos' = [mos EXCEPT !.op = "return",
                 !.out = IF \E i \in 1..Len(mos.arg) : mos.arg[i] = 0
                         THEN [status |-> "ValueError", msg |-> "covector cannot contain 0",
                               poly |-> PZero]
                         ELSE IF mos.arg \notin Range(mos.alg.regions)
                         THEN [status |-> "KeyError", msg |-> "", poly |-> PZero]
                         ELSE [status |-> "ok", msg |-> "",
                               poly |-> to_polynomial_on_basis(mos.alg, "C",
                                           [i \in 1..Len(mos.arg) |-> -mos.arg[i]])]]
    /\ UNCHANGED <<cache, last, q, idl>>

\* Covector.to_polynomial_on_basis (lines 1337-1358): the lookup of line 1343
\* raises KeyError for a key that the dictionary does not hold.
CovectorToPolynomialOnBasis ==
    /\ mos.op = "call" /\ mos.fn = "C.to_polynomial_on_basis"
    /\ mos' = [mos EXCEPT !.op = "return",
                 !.out = IF \E i \in 1..Len(mos.arg) : mos.arg[i] = 0
                         THEN [status |-> "ValueError", msg |-> "covector cannot contain 0",
                               poly |-> PZero]
                         ELSE IF mos.arg \notin Range(mos.alg.regions)
                         THEN [status |-> "KeyError", msg |-> "", poly |-> PZero]
                         ELSE [status |-> "ok", msg |-> "",
                               poly |-> to_polynomial_on_basis(mos.alg, "C", mos.arg)]]
    /\ UNCHANGED <<cache, last, q, idl>>

CovectorsInCone ==
    /\ mos.op = "call" /\ mos.fn = "covectors_in_cone"
    /\ mos' = [mos EXCEPT !.op = "return", !.out = covectors_in_cone(mos.alg, mos.arg)]
    /\ UNCHANGED <<cache, last, q, idl>>

\* B.from_polynomial(b.to_polynomial()) for the element b of the basis B:
\* to_polynomial is lines 640-641.
RoundTrip ==
    /\ mos.op = "call" /\ mos.fn = "round_trip"
    /\ \E p \in {LinearExtension(mos.arg[2],
                    [k \in DOMAIN mos.arg[2] |->
                       to_polynomial_on_basis(mos.alg, mos.arg[1], k)])} :
          mos' = [mos EXCEPT !.op = "return",
                    !.out = [poly |-> p, back |-> from_polynomial(mos.alg, mos.arg[1], p)]]
    /\ UNCHANGED <<cache, last, q, idl>>

\* B1(a) for the element a of the basis B0, and B0 of the result.
ConvertAndBack ==
    /\ mos.op = "call" /\ mos.fn = "convert"
    /\ \E P \in {[BB \in {<<mos.arg[1], mos.arg[2]>>, <<mos.arg[2], mos.arg[1]>>} |->
                    CoercionPath(mos.cls, BB[1], BB[2])]} :
       \E R \in {[way \in {"there", "back"} |->
                    Convert(mos.alg,
                            IF way = "there" THEN P[<<mos.arg[1], mos.arg[2]>>]
                            ELSE P[<<mos.arg[1], mos.arg[2]>>]
                                 \o Tail(P[<<mos.arg[2], mos.arg[1]>>]),
                            mos.arg[3])]} :
          mos' = [mos EXCEPT !.op = "return", !.out = R]
    /\ UNCHANGED <<cache, last, q, idl>>

\* change_of_basis_matrix(B0, B1) and change_of_basis_matrix(B1, B0).
ChangeOfBasis ==
    /\ mos.op = "call" /\ mos.fn = "change_of_basis_matrix"
    /\ \E M \in {[BB \in {<<mos.arg[1], mos.arg[2]>>, <<mos.arg[2], mos.arg[1]>>} |->
                    change_of_basis_matrix(mos.alg, BB[1], BB[2])]} :
          mos' = [mos EXCEPT !.op = "return",
                    !.out = [there |-> M[<<mos.arg[1], mos.arg[2]>>],
                             back |-> M[<<mos.arg[2], mos.arg[1]>>]]]
    /\ UNCHANGED <<cache, last, q, idl>>

\* The product of the elements mos.arg[2] of the basis mos.arg[1], from left
\* to right: out.elt is the product so far, out.rest the factors to come.
FirstFactor ==
    /\ mos.op = "call" /\ mos.fn = "product"
    /\ mos' = [mos EXCEPT !.op = "factor",
                 !.out = [elt |-> Head(mos.arg[2]), rest |-> Tail(mos.arg[2])]]
    /\ UNCHANGED <<cache, last, q, idl>>

\* a * b for a = mos.arg[2] in the basis mos.arg[1] and b = mos.arg[4] in
\* another basis mos.arg[3]: the coercion model converts b to the basis of a
\* and multiplies there (doctests of lines 1071-1084).
MixedFactor ==
    /\ mos.op = "call" /\ mos.fn = "mixed_product"
    /\ mos' = [mos EXCEPT !.op = "factor",
                 !.out = [elt |-> mos.arg[2],
                          rest |-> <<Convert(mos.alg,
                                             CoercionPath(mos.cls, mos.arg[3], mos.arg[1]),
                                             mos.arg[4])>>]]
    /\ UNCHANGED <<cache, last, q, idl>>

\* The next factor is consumed and the product so far is kept.
NextFactorKeepingLeft ==
    /\ mos.op = "factor"
    /\ mos.out.rest # <<>>
    /\ mos' = [mos EXCEPT !.out = [elt |-> mos.out.elt, rest |-> Tail(mos.out.rest)]]
    /\ UNCHANGED <<cache, last, q, idl>>

NextFactor ==
    /\ mos.op = "factor"
    /\ mos.out.rest # <<>>
    /\ mos' = [mos EXCEPT !.out =
                 [elt |-> Product(mos.alg, mos.arg[1], mos.out.elt, Head(mos.out.rest)),
                  rest |-> Tail(mos.out.rest)]]
    /\ UNCHANGED <<cache, last, q, idl>>

\* Covector.one (lines 1303-1304): self(X.one()).
CovectorOne ==
    /\ mos.op = "call" /\ mos.fn = "C.one"
    /\ mos' = [mos EXCEPT !.op = "return",
                 !.out = Convert(mos.alg, CoercionPath(mos.cls, "X", "C"), Monomial({}))]
    /\ UNCHANGED <<cache, last, q, idl>>

\* A Varchenko-Gelfand algebra that was constructed without an error, and one
\* call on it.  The elements of a basis tried: the basis elements, the
\* element an_element() and 2*b - c for neighbouring basis elements b and c;
\* the factors of a product: the basis elements and the images B(X[i]) of the
\* generators, up to two factors, and up to MaxFactors images of generators.
InitVG ==
    /\ cache = {}
    /\ last = NoCall
    /\ q = IdleQ
    /\ idl = IdleIdl
    /\ \E inp \in {i \in {[cls |-> "VarchenkoGelfandAlgebra", base |-> b, arr |-> a,
                                u |-> UInt(1)] : b \in MosBases, a \in VGArrangements} :
                          MoseleyInit(i).status = "ok"} :
         LET A == inp.arr
             V == VGAlgebras[A]
             Call(fn, arg) ==
               [op |-> "call", fn |-> fn, cls |-> inp.cls, base |-> inp.base,
                alg |-> V, arg |-> arg, out |-> <<>>]
             Keys(B) == V.keys[B]
             Tried(B) ==
               {Monomial(k) : k \in Range(Keys(B))}
               \cup {[k \in {Keys(B)[1], Keys(B)[2], Keys(B)[3]} |->
                        IF k = Keys(B)[3] THEN 3 ELSE 2]}
               \cup {[k \in {Keys(B)[i], Keys(B)[i + 1]} |->
                        IF k = Keys(B)[i] THEN 2 ELSE -1] : i \in 1..(Len(Keys(B)) - 1)}
             Images(B) ==
               {Convert(V, CoercionPath(inp.cls, "X", B), Monomial({i})) : i \in 0..(V.n - 1)}
             Factors(B) == {Monomial(k) : k \in Range(Keys(B))} \cup Images(B)
         IN \/ \E c \in [1..V.n -> {-1, 0, 1}] :
                    mos \in {Call("covectors_in_cone", c)}
                             \cup (IF A.name = "cone6" THEN {}
                                   ELSE {Call("C.__getitem__", c),
                                         Call("C.to_polynomial_on_basis", c)})
            \/ /\ A.name # "cone6"
               /\ \/ mos = Call("C.one", <<>>)
                  \/ \E B \in BasisNames : \E b \in Tried(B) :
                        mos = Call("round_trip", <<B, b>>)
                  \/ \E B0 \in BasisNames, B1 \in BasisNames :
                        \/ mos = Call("change_of_basis_matrix", <<B0, B1>>)
                        \/ \E a \in Tried(B0) : mos = Call("convert", <<B0, B1, a>>)
                        \/ /\ B0 # B1
                           /\ \E a \in Tried(B0), b \in Tried(B1) :
                                 mos = Call("mixed_product", <<B0, a, B1, b>>)
                  \/ \E B \in BasisNames, l \in 1..MaxFactors :
                     \E es \in [1..l -> IF l <= 2 THEN Factors(B) ELSE Images(B)] :
                        mos = Call("product", <<B, es>>)

NextVG ==
    \/ CovectorGetItem
    \/ CovectorToPolynomialOnBasis
    \/ CovectorsInCone
    \/ RoundTrip
    \/ ConvertAndBack
    \/ ChangeOfBasis
    \/ FirstFactor
    \/ MixedFactor
    \/ NextFactor
    \/ CovectorOne

SpecVG == InitVG /\ [][NextVG]_vars

(***************************************************************************)
(* The steps of the construction machine (SpecMos).                        *)
(***************************************************************************)
\* underlying_polynomial_ring() of an algebra that was constructed (lines
\* 410-438): the generators of the defining ideal.  The parameter u is a
\* variable name or an integer here; the ring is cached, so that this is the
\* ring that the construction used.
UnderlyingPolynomialRing ==
    /\ mos.op = "construct"
    /\ mos.out.status = "ok"
    /\ mos.inp.u.kind \in {"str", "int"}
    /\ mos' = [op |-> "underlying_polynomial_ring", inp |-> mos.inp, out |-> mos.out,
               gens |-> ideal_gens(mos.inp.arr, mos.out.homogenized, mos.inp.u.num)]
    /\ UNCHANGED <<cache, last, q, idl>>

NextMos ==
    \/ \E inp \in MosInputs : MosConstruct(inp)
    \/ UnderlyingPolynomialRing

SpecMos == InitMos /\ [][NextMos]_vars

(***************************************************************************)
(* Properties of gen and of construction (SpecQuot).                       *)
(***************************************************************************)
\* C1: gen(i) raises IndexError exactly when i < 0 or i >= ngens, and raises
\* nothing when 0 <= i < ngens.
C1_GenIndexErrorExactlyOutOfRange ==
    last.op = "gen" =>
        LET H == last.inp.H
            i == last.inp.i
        IN /\ (last.out.status = "IndexError") <=> (i < 0 \/ i >= ngens(H))
           /\ (0 <= i /\ i < ngens(H)) => last.out.status = "ok"

C1_Witness ==
    /\ last.op = "gen"
    /\ last.inp.i = -1
    /\ ngens(last.inp.H) = 3
    /\ last.out.status = "IndexError"

\* C2 (as amended): for a valid index i, gen(i) has coordinate 1 exactly at the
\* position of the monomial F.gen(i) in the ordered monomial basis and 0
\* elsewhere; for a basis that starts [1, g0, ..., g(n-1)] that is the
\* 0-based position i + 1.
C2_GenIsVectorOfGeneratorMonomial ==
    (last.op = "gen" /\ last.out.status = "ok") =>
        LET H == last.inp.H
            i == last.inp.i
            v == last.out.vec
        IN /\ Len(v) = dimension(H)
           /\ \A p \in 1..dimension(H) :
                v[p] = (IF monomial_basis(H)[p] = FGen(i) THEN 1 ELSE 0)
           /\ v = UnitVector(dimension(H), i + 1)

C2_Witness ==
    /\ last.op = "gen"
    /\ last.out.status = "ok"
    /\ last.inp.i = 1
    /\ monomial_basis(last.inp.H) = GensBasis(3)

\* C2 (as written): for a valid index i, gen(i) has coordinate 1 at position i
\* of the ordered monomial basis and 0 elsewhere.
C2_GenIsIthBasisVector ==
    (last.op = "gen" /\ last.out.status = "ok") =>
        last.out.vec = UnitVector(dimension(last.inp.H), last.inp.i)

\* C3: a construction whose A is not a free algebra, or whose number of
\* matrices differs from the number of generators, raises TypeError and
\* yields no object.
C3_MalformedConstructionRaisesTypeError ==
    (/\ last.op = "construct"
     /\ \/ ~last.inp.A.free
        \/ Len(last.inp.mats.items) # last.inp.A.n)
    => /\ last.out.status = "TypeError"
       /\ last.out.obj \notin cache

\* C4: a construction from data equal to that of an earlier one returns the
\* identical cached object, whatever the containers and the mutability of the
\* matrices passed; objects built from data that differ in the base ring, the
\* monomials, the matrices or the names are different objects.
C4_UniqueRepresentation ==
    /\ \A Ha, Hb \in cache : (DataOf(Ha) = DataOf(Hb)) <=> (Ha = Hb)
    /\ (last.op = "construct" /\ last.out.status = "ok") =>
        /\ last.out.obj \in cache
        /\ \A H \in cache : (H = last.out.obj) <=> (DataOf(H) = DataOf(last.inp))

C4_Witness ==
    /\ last.op = "construct"
    /\ last.hit
    /\ last.inp.mats.items[1].mutable
    /\ last.inp.mons.kind = "list"
    /\ \E H \in cache :
        /\ H # last.out.obj
        /\ H.A = last.out.obj.A
        /\ H.mons = last.out.obj.mons
        /\ H.names = last.out.obj.names

(***************************************************************************)
(* Properties of the quaternion quotients (SpecArith).                     *)
(***************************************************************************)
\* C5: for every triple (a, b, c) of elements of the monomial basis of the
\* quaternion quotient, (a*b)*c = a*(b*c) and a*(b+c) = a*b + a*c.
C5_AssociativeAndDistributive ==
    (q.mode = "triple" /\ q.pc = "done") =>
        /\ q.ab_c = q.a_bc
        /\ q.a_bpc = q.ab_p_ac

C5_Witness ==
    /\ q.mode = "triple"
    /\ q.pc = "done"
    /\ q.H = hamilton_quatalg(0)
    /\ q.a = 1 /\ q.b = 2 /\ q.c = 3
    /\ q.ab_c = Elem(q.H, <<-1, 0, 0, 0>>)

\* C6: in the quaternion quotient, (1 + i + j + k)^128 is
\* -2^127 + 2^127*i + 2^127*j + 2^127*k, and 2^127 is
\* 170141183460469231731687303715884105728.
C6_Power128 ==
    /\ (/\ q.mode = "pow"
        /\ q.pc = "done"
        /\ q.x = <<1, 1, 1, 1>>
        /\ q.n0 = 128)
       => q.res = << [m |-> -1, e |-> 127], [m |-> 1, e |-> 127],
                     [m |-> 1, e |-> 127], [m |-> 1, e |-> 127] >>
    /\ DigitsOfCoefficient = <<1, 7, 0, 1, 4, 1, 1, 8, 3, 4, 6, 0, 4, 6, 9, 2, 3, 1, 7,
                             3, 1, 6, 8, 7, 3, 0, 3, 7, 1, 5, 8, 8, 4, 1, 0, 5, 7, 2, 8>>

C6_Witness ==
    /\ q.mode = "pow"
    /\ q.pc = "done"
    /\ q.H = hamilton_quatalg(0)
    /\ q.x = <<1, 1, 1, 1>>
    /\ q.n0 = 128

\* C7: over every base ring tried, the generators of hamilton_quatalg(R)
\* satisfy i*i = j*j = k*k = -1 and i*j = k.
C7_QuaternionRelations ==
    (q.mode = "triple" /\ q.pc = "done" /\ q.H.name = "H3") =>
        /\ (q.a = q.b /\ q.a \in 1..3) => q.ab = Elem(q.H, <<-1, 0, 0, 0>>)
        /\ (q.a = 1 /\ q.b = 2) => q.ab = BasisVec(q.H, 3)

C7_Witness ==
    /\ q.mode = "triple"
    /\ q.pc = "done"
    /\ q.H = hamilton_quatalg(3)
    /\ q.a = 1 /\ q.b = 2
    /\ q.ab = <<0, 0, 0, 1>>

(***************************************************************************)
(* Properties of FreeAlgebraIdeal (SpecIdeal).                             *)
(***************************************************************************)
\* C8: for every ideal and element f, reduce(f) returns an element r such that
\* the leading monomial of no element of the basis is a contiguous sub-word of
\* the leading monomial of r; for I = (x1*x2 - x2*x3), reduce(x1*x2*x3) is
\* x1^2*x2.
C8_ReduceReturnsNormalForm ==
    (idl.pc = "done" /\ idl.call = "reduce") =>
        /\ idl.out = "ok"
        /\ \/ IsZero(idl.rem)
           \/ \A g \in Range(idl.GB) : Occurrences(LM(g), LM(idl.rem)) = {}
        /\ (idl.gens = IdealDoctest /\ idl.f = Monomial(<<0, 1, 2>>))
            => idl.rem = Monomial(<<0, 0, 1>>)

\* C9: when the counter reaches max_size while overlaps are pending,
\* groebner_basis warns and returns the partial basis, which contains the
\* generators.
C9_CapReturnsPartialBasis ==
    (idl.pc = "done" /\ idl.capHit) =>
        /\ idl.out = "ok"
        /\ idl.gens \subseteq Range(idl.GB)

(***************************************************************************)
(* Properties of the construction of MoseleyAlgebra (SpecMos).             *)
(***************************************************************************)
\* C10: constructing a MoseleyAlgebra raises ValueError when the arrangement
\* is not central, and raises ValueError when the base is not a ring; no
\* object is produced in either case.
C10_MoseleyRejectsBadInput ==
    (mos.op = "construct" /\ (~mos.inp.arr.central \/ ~InRings(mos.inp.base))) =>
        /\ mos.out.status = "ValueError"
        /\ mos.out.coercions = {}
        /\ ~mos.inp.arr.central
            => mos.out.msg = "the hyperplane arrangement must be central"

C10_Witness ==
    /\ mos.op = "construct"
    /\ mos.inp.arr.central
    /\ mos.inp.base = "S4"
    /\ mos.out.status = "ValueError"
    /\ mos.out.msg = "must be a ring"

(***************************************************************************)
(* Properties of the Varchenko-Gelfand algebra (SpecVG, SpecMos).          *)
(***************************************************************************)
\* C11: every operation of the covector basis that is given a covector key
\* (C[c] and to_polynomial_on_basis(c)) fails with a ValueError when c has a 0
\* entry and when c is a vector of +1/-1 that is the sign vector of no
\* chamber, and with no other kind of error.
C11_CovectorKeyErrorsAreValueErrors ==
    (mos.op = "return" /\ mos.fn \in {"C.__getitem__", "C.to_polynomial_on_basis"})
        => /\ mos.out.status \in {"ok", "ValueError"}
           /\ mos.arg \notin Range(mos.alg.regions) => mos.out.status = "ValueError"

\* C12: for each of the three bases and every basis element b of it (and for
\* the other elements tried), from_polynomial(to_polynomial(b)) is b.
C12_FromPolynomialInvertsToPolynomial ==
    (mos.op = "return" /\ mos.fn = "round_trip") => mos.out.back = mos.arg[2]

\* A covector basis element of braid(3) whose polynomial has several terms came
\* back from the round trip.
C12_Witness ==
    /\ mos.op = "return" /\ mos.fn = "round_trip"
    /\ mos.arg = <<"C", Monomial(<<-1, -1, -1>>)>>
    /\ Cardinality(DOMAIN mos.out.poly) > 1
    /\ mos.out.back = Monomial(<<-1, -1, -1>>)

\* C13: for every ordered pair (B0, B1) of bases and every element a of B0,
\* converting a to B1 and the result back to B0 returns a; the product of
\* change_of_basis_matrix(B0, B1) and change_of_basis_matrix(B1, B0) is the
\* identity matrix, and change_of_basis_matrix(B0, B0) is the identity matrix.
C13_ChangeOfBasisIsInvertible ==
    LET M == mos.out.there
        N == mos.out.back
        Identity == [i \in 1..Len(M) |-> [j \in 1..Len(M) |-> IF i = j THEN 1 ELSE 0]]
        Times == [i \in 1..Len(M) |->
                    [j \in 1..Len(M) |->
                       SumOver([k \in 1..Len(M) |-> M[i][k] * N[k][j]], 1..Len(M))]]
    IN /\ (mos.op = "return" /\ mos.fn = "convert") => mos.out.back = mos.arg[3]
       /\ (mos.op = "return" /\ mos.fn = "change_of_basis_matrix")
             => /\ Times = Identity
                /\ mos.arg[1] = mos.arg[2] => M = Identity

\* N(C[1, -1, 1]) = -N[0, 1] + N[0, 2] in braid(3) (lines 129-130), found by
\* composing two coercions, was converted back to C[1, -1, 1].
C13_Witness ==
    /\ mos.op = "return" /\ mos.fn = "convert"
    /\ mos.arg = <<"C", "N", Monomial(<<1, -1, 1>>)>>
    /\ mos.out.there = [k \in {{0, 1}, {0, 2}} |-> IF k = {0, 1} THEN -1 ELSE 1]
    /\ mos.out.back = Monomial(<<1, -1, 1>>)

\* C14: in the NBC basis of braid(3), N[0]*N[1]*N[2] is N[0, 1], N[1]*N[2] is
\* N[2] + N[0, 1] - N[0, 2], and the product of every two basis elements is
\* the one printed in the product_on_basis doctest (lines 575-610).
C14_NBCProductTable ==
    LET S == [k \in {{2}, {0, 1}, {0, 2}} |-> IF k = {0, 2} THEN -1 ELSE 1]
        E(k) == Monomial(k)
        Keys == <<{}, {0}, {1}, {2}, {0, 1}, {0, 2}>>
        Table ==
          <<(<<E({}), E({0}), E({1}), E({2}), E({0, 1}), E({0, 2})>>),
            (<<E({0}), E({0}), E({0, 1}), E({0, 2}), E({0, 1}), E({0, 2})>>),
            (<<E({1}), E({0, 1}), E({1}), S, E({0, 1}), E({0, 1})>>),
            (<<E({2}), E({0, 2}), S, E({2}), E({0, 1}), E({0, 2})>>),
            (<<E({0, 1}), E({0, 1}), E({0, 1}), E({0, 1}), E({0, 1}), E({0, 1})>>),
            (<<E({0, 2}), E({0, 2}), E({0, 1}), E({0, 2}), E({0, 1}), E({0, 2})>>)>>
        x(i) == PTerm(3, i + 1, 1)
        N(p) == from_polynomial(mos.alg, "N", p)
        es == mos.arg[2]
    IN (/\ mos.op = "factor" /\ mos.fn = "product" /\ mos.out.rest = <<>>
        /\ mos.alg.arr.name = "braid3" /\ mos.arg[1] = "N")
          => /\ es = <<N(x(0)), N(x(1)), N(x(2))>> => mos.out.elt = N(PMul(x(0), x(1)))
             /\ es = <<N(x(1)), N(x(2))>> => mos.out.elt = S
             /\ \A i \in 1..6, j \in 1..6 :
                   es = <<E(Keys[i]), E(Keys[j])>> => mos.out.elt = Table[i][j]

\* The product N[0]*N[1]*N[2] was computed in braid(3) and is N[0, 1].
C14_Witness ==
    /\ mos.op = "factor" /\ mos.fn = "product" /\ mos.out.rest = <<>>
    /\ mos.alg.arr.name = "braid3"
    /\ mos.arg = <<"N", <<Monomial({0}), Monomial({1}), Monomial({2})>> >>
    /\ mos.out.elt = Monomial({0, 1})

\* C15: one() of the covector basis is the sum, with coefficient 1, of the
\* covector basis elements of all chambers; these are six for braid(3).
C15_CovectorOneIsSumOfChambers ==
    (mos.op = "return" /\ mos.fn = "C.one")
        => /\ mos.out = [c \in Range(mos.alg.regions) |-> 1]
           /\ mos.alg.arr.name = "braid3"
                => DOMAIN mos.out = {<<-1, -1, -1>>, <<-1, 1, -1>>, <<-1, 1, 1>>,
                                     <<1, -1, -1>>, <<1, -1, 1>>, <<1, 1, 1>>}

\* one() returned an element with six terms (lines 1300-1301).
C15_Witness ==
    /\ mos.op = "return" /\ mos.fn = "C.one"
    /\ mos.alg.arr.name = "braid3"
    /\ Cardinality(DOMAIN mos.out) = 6
    /\ mos.out[<<1, -1, 1>>] = 1

C17_CovectorsInConeSelectsByMask ==
    (mos.op = "return" /\ mos.fn = "covectors_in_cone")
        => LET n == mos.alg.n
               chambers == Range(mos.alg.regions)
           IN /\ \A k \in 1..Len(mos.out) :
                    /\ mos.out[k] \in [1..n -> {-1, 1}]
                    /\ \A l \in 1..Len(mos.out) : mos.out[k] = mos.out[l] => k = l
              /\ Range(mos.out)
                   = {c \in chambers : \A i \in 1..n : mos.arg[i] * c[i] >= 0}
              /\ mos.arg = [i \in 1..n |-> 0] => Range(mos.out) = chambers
              /\ (mos.alg.arr.name = "cone6" /\ mos.arg = <<0, 1, 0, 1, 0, 1>>)
                   => Range(mos.out) = {<<1, 1, 1, 1, -1, 1>>, <<1, 1, -1, 1, -1, 1>>,
                                        <<-1, 1, 1, 1, 1, 1>>, <<-1, 1, 1, 1, -1, 1>>,
                                        <<-1, 1, -1, 1, 1, 1>>, <<-1, 1, -1, 1, -1, 1>>}

\* The call of the doctest returned six covectors, out of 26 chambers.
C17_Witness ==
    /\ mos.op = "return" /\ mos.fn = "covectors_in_cone"
    /\ mos.alg.arr.name = "cone6"
    /\ mos.arg = <<0, 1, 0, 1, 0, 1>>
    /\ Len(mos.out) = 6
    /\ Len(mos.alg.regions) = 26

\* C18: the defining ideal of underlying_polynomial_ring() has generators of
\* two kinds and no others, for every setting of the homogenizing parameter:
\* x_i^2 - x_i*z0 for each hyperplane, and one relation for each basis vector
\* of the left kernel of the normals of each circuit; for braid(3) with the
\* parameter 1 they are x0^2 - x0, x1^2 - x1, x2^2 - x2 and
\* -x0*x1 + x0*x2 + x1*x2 - x2.
C18_IdealGeneratorsOfTwoKinds ==
    (mos.op = "underlying_polynomial_ring")
        => LET A == mos.inp.arr
               nv == IF mos.out.homogenized THEN A.n + 1 ELSE A.n
               z0 == IF mos.out.homogenized THEN PTerm(nv, A.n + 1, 1)
                     ELSE PTerm(nv, 0, mos.inp.u.num)
               x(i) == PTerm(nv, i + 1, 1)
               relations == UNION {{<<S, v>> : v \in left_kernel_basis(A, S)} :
                                     S \in circuits(A)}
           IN /\ Len(mos.gens) = A.n + Cardinality(relations)
              /\ \A i \in 0..(A.n - 1) :
                    mos.gens[i + 1] = PAdd(PMul(x(i), x(i)), PScale(-1, PMul(x(i), z0)))
              /\ (A.name = "braid3" /\ mos.inp.u = UInt(1))
                   => mos.gens =
                        <<(<<2, 0, 0>> :> 1 @@ <<1, 0, 0>> :> -1),
                          (<<0, 2, 0>> :> 1 @@ <<0, 1, 0>> :> -1),
                          (<<0, 0, 2>> :> 1 @@ <<0, 0, 1>> :> -1),
                          (<<1, 1, 0>> :> -1 @@ <<1, 0, 1>> :> 1
                             @@ <<0, 1, 1>> :> 1 @@ <<0, 0, 1>> :> -1)>>

\* C19: for every ring and every central arrangement the algebra can be
\* constructed with the parameter 1 (VarchenkoGelfandAlgebra) and with the
\* parameter 0 (CordovilAlgebra): the construction completes, the parameter
\* is stored before _get_polynomial_vars reads it, and the generators of the
\* ring are x_i^2 - x_i for the parameter 1 and x_i^2 for the parameter 0.
C19_SpecializationsConstruct ==
    LET specialized == mos.inp.cls \in {"VarchenkoGelfandAlgebra", "CordovilAlgebra"}
    IN /\ (/\ mos.op = "construct" /\ specialized
           /\ InRings(mos.inp.base) /\ mos.inp.arr.central)
             => mos.out.status = "ok" /\ mos.out.uSet
       /\ (mos.op = "underlying_polynomial_ring" /\ specialized)
             => \A i \in 1..mos.inp.arr.n :
                   \A x \in {PTerm(mos.inp.arr.n, i, 1)} :
                      mos.gens[i] = PAdd(PMul(x, x), PScale(-mos.inp.u.num, x))

\* C20: in a constructed VarchenkoGelfandAlgebra there is, for every ordered
\* pair (B0, B1) of distinct bases, a conversion from B0 to B1: a registered
\* coercion, or two registered coercions composed through the normal basis.
\* It maps each basis key k of B0 to
\* B1.from_polynomial(B0.to_polynomial_on_basis(k)).  The product of elements
\* of two different bases is therefore defined, and lies in one of the two
\* bases (the basis of the left factor).
C20_ConversionsBetweenAllBases ==
    /\ (mos.op = "return" /\ mos.fn = "convert" /\ mos.arg[1] # mos.arg[2])
          => /\ \A P \in {CoercionPath(mos.cls, mos.arg[1], mos.arg[2])} :
                   IF <<mos.arg[1], mos.arg[2]>> \in RegisteredCoercions(mos.cls)
                   THEN P = <<mos.arg[1], mos.arg[2]>>
                   ELSE P = <<mos.arg[1], "X", mos.arg[2]>>
             /\ \A k \in {k \in DOMAIN mos.arg[3] : mos.arg[3] = Monomial(k)} :
                   mos.out.there
                     = from_polynomial(mos.alg, mos.arg[2],
                                       to_polynomial_on_basis(mos.alg, mos.arg[1], k))
    /\ (mos.op = "factor" /\ mos.fn = "mixed_product" /\ mos.out.rest = <<>>)
          => DOMAIN mos.out.elt \subseteq Range(mos.alg.keys[mos.arg[1]])

\* The product n * c of the doctest (lines 1071-1072), which needs the
\* composed conversion from the covector basis to the NBC basis, is
\* -4*N[0, 2] + 12*N[0] + 6*N[0, 1].
C20_Witness ==
    /\ mos.op = "factor" /\ mos.fn = "mixed_product" /\ mos.out.rest = <<>>
    /\ mos.alg.arr.name = "braid3"
    /\ mos.arg = <<"N", [k \in {{}, {0}, {1}} |-> IF k = {1} THEN 3 ELSE 2],
                   "C", [c \in {<<1, 1, 1>>, <<1, -1, 1>>, <<1, -1, -1>>} |->
                           IF c = <<1, -1, -1>> THEN 3 ELSE 2]>>
    /\ CoercionPath(mos.cls, "C", "N") = <<"C", "X", "N">>
    /\ mos.out.elt = [k \in {{0, 2}, {0}, {0, 1}} |->
                        IF k = {0, 2} THEN -4 ELSE IF k = {0} THEN 12 ELSE 6]

(***************************************************************************)
(* Properties of the loops of groebner_basis and reduce (SpecIdeal,        *)
(* SpecIdealFair), of the sizes of the action matrices (SpecQuot) and of   *)
(* the covector basis (SpecVG).                                            *)
(***************************************************************************)
\* C21: in groebner_basis, whenever a popped overlap reduces to a nonzero r,
\* the working basis afterwards is the previous basis with r added, and the
\* overlaps of r with every basis element, in both orientations, are in the
\* pending set; hence the working basis always is a set that contains the
\* original generators, and it never shrinks.
C21_BasisGrowsByReducedOverlaps ==
    [][(idl.pc = "gb_loop" /\ idl'.pc = "gb_loop")
          => /\ ~idl'.GNone
             /\ idl.gens \subseteq idl'.G /\ idl.G \subseteq idl'.G
             /\ idl'.counter # idl.counter
                  => \E r \in idl'.G \ idl.G :
                        /\ idl'.G = idl.G \cup {r}
                        /\ \A g \in idl'.G :
                              ({overlap_element(g, r), overlap_element(r, g)} \ {PZero})
                                 \subseteq idl'.O]_vars
\* C22: when groebner_basis returns because no overlap is pending (the cap
\* was not hit), the returned basis is closed under overlap resolution: for
\* every ordered pair (f, g) of its elements, f = g and the pairs of original
\* generators included, every overlap element of f and g reduces to zero
\* against the returned basis.
C22_ReturnedBasisIsClosed ==
    (idl.call = "groebner_basis" /\ idl.pc = "done" /\ idl.out = "ok" /\ ~idl.capHit)
        => \A f \in Range(idl.GB), g \in Range(idl.GB) :
              \A k \in OverlapLengths(f, g) :
                 IsZero(reduce_mod(OverlapAt(f, g, k), Range(idl.GB)))
\* C23: every reduction step of reduce cancels the leading term: after
\* rem := rem - lefts*g*rights the previous leading monomial no longer occurs
\* in rem, and the new leading monomial, if any, is strictly smaller; and the
\* call terminates (by returning or by raising).
C23_ReduceStepCancelsLeadingTerm ==
    /\ [][(idl.pc = "red_loop" /\ idl'.steps # idl.steps)
             => /\ LM(idl.rem) \notin DOMAIN idl'.rem
                /\ IsZero(idl'.rem) \/ WordLess(LM(idl'.rem), LM(idl.rem))]_vars
    /\ <>(idl.pc = "done")
\* reduce has finished after at least two reduction steps.
C23_Witness == idl.call = "reduce" /\ idl.pc = "done" /\ idl.steps >= 2
\* C24: throughout reduce(f), f - rem is a finite sum of terms c*l*g*r with g
\* an element of the basis: rem starts as f, the basis consists of elements
\* of the ideal, and every step of the loop either leaves rem alone or
\* subtracts from it one term c*l*g*r, l and r words around an occurrence of
\* LM(g) in LM(rem); so the returned remainder is congruent to f.
C24_RemainderCongruentToF ==
    /\ [](idl.pc = "red_loop" =>
            /\ Range(idl.GB) \subseteq idl.gens
            /\ idl.steps = 0 => idl.rem = idl.f)
    /\ [][(idl.pc = "red_loop" /\ idl'.rem # idl.rem)
             => \E g \in Range(idl.GB), c \in {LC(idl.rem), -LC(idl.rem)} :
                   \E i \in 0..Len(LM(idl.rem)) : \E j \in i..Len(LM(idl.rem)) :
                      PSub(idl.rem, idl'.rem)
                         = TermMul(c, SubSeq(LM(idl.rem), 1, i), g,
                                   SubSeq(LM(idl.rem), j + 1, Len(LM(idl.rem))))]_vars
\* The doctest of reduce: modulo (x1*x2 - x2*x3), x1*x2*x3 reduces to x1^2*x2.
C24_Witness ==
    /\ idl.call = "reduce" /\ idl.pc = "done" /\ idl.out = "ok"
    /\ idl.gens = IdealDoctest /\ idl.f = Monomial(<<0, 1, 2>>)
    /\ idl.rem = Monomial(<<0, 0, 1>>) /\ idl.steps = 1
\* C25: reduce(f) returns zero without raising whenever the remainder becomes
\* zero: reduce(0), reduce(g) for a generator g, and reduce(l*g*r) for a
\* single generator g all return 0.
C25_ReduceReturnsZero ==
    (/\ idl.call = "reduce" /\ idl.pc = "done"
     /\ \/ idl.f = PZero
        \/ idl.f \in idl.gens
        \/ \E g \in idl.gens, l \in Words, r \in Words :
              idl.gens = {g} /\ idl.f = TermMul(1, l, g, r))
        => idl.out = "ok" /\ IsZero(idl.rem)
\* C26: every successfully constructed FreeAlgebraQuotient of dimension
\* d = len(mons) holds, for each free generator, one square action matrix of
\* size d x d; a construction whose matrices have any other size is rejected.
C26_ActionMatricesHaveModuleSize ==
    (last.op = "construct" /\ last.out.status = "ok")
        => /\ Len(last.out.obj.mats.items) = ngens(last.out.obj)
           /\ \A k \in DOMAIN last.out.obj.mats.items :
                 last.out.obj.mats.items[k].size = dimension(last.out.obj)
\* C27: the elements of the covector basis are orthogonal idempotents:
\* C[a]*C[a] == C[a], and C[a]*C[b] == 0 for covectors a # b of regions.
C27_CovectorsAreOrthogonalIdempotents ==
    (/\ mos.op = "factor" /\ mos.fn = "product" /\ mos.arg[1] = "C"
     /\ Len(mos.arg[2]) = 2 /\ mos.out.rest = <<>>)
        => \A a \in Range(mos.alg.keys["C"]), b \in Range(mos.alg.keys["C"]) :
              mos.arg[2] = <<Monomial(a), Monomial(b)>>
                 => mos.out.elt = IF a = b THEN Monomial(a) ELSE PZero
\* The product of the basis elements of two different regions has been
\* computed.
C27_Witness ==
    /\ mos.op = "factor" /\ mos.fn = "product" /\ mos.arg[1] = "C"
    /\ Len(mos.arg[2]) = 2 /\ mos.out.rest = <<>>
    /\ \E a \in Range(mos.alg.keys["C"]), b \in Range(mos.alg.keys["C"]) :
          a # b /\ mos.arg[2] = <<Monomial(a), Monomial(b)>> /\ mos.out.elt = PZero
C29_GroebnerBasisTerminates ==
    /\ [][idl.pc = "gb_loop"
             => \/ idl'.pc # "gb_loop"
                \/ /\ idl'.O \subseteq idl.O
                   /\ Cardinality(idl'.O) = Cardinality(idl.O) - 1]_vars
    /\ <>(idl.pc \notin {"gb_start", "gb_loop"})
\* groebner_basis has returned after an iteration of its loop.
C29_Witness ==
    /\ idl.call = "groebner_basis" /\ idl.pc = "done" /\ idl.out = "ok"
    /\ \E f \in idl.gens, g \in idl.gens : f # g /\ ~IsZero(overlap_element(f, g))
\* C30: at the head of every iteration of the loop of groebner_basis, counter
\* is the number of elements of the working basis G; so the basis returned on
\* either exit has at most max(max_size, number of generators) elements.
C30_CounterIsBasisSize ==
    /\ idl.pc = "gb_loop" => (~idl.GNone /\ idl.counter = Cardinality(idl.G))
    /\ (idl.call = "groebner_basis" /\ idl.pc = "done")
          => /\ idl.out = "ok"
             /\ Len(idl.GB) <= idl.max_size \/ Len(idl.GB) <= Cardinality(idl.gens)

====
